---------------------------- MODULE Spec2Model ----------------------------
(***************************************************************************)
(* Model of the forcing kernels (src/src/force.cxx) and of the two         *)
(* pressure solvers (src/src/pres.cxx, src/src/pres_4.cxx) of MicroHH.     *)
(*                                                                         *)
(* Numbers.  The Force kernels compare values (upwind branch, search in    *)
(* the time axis), so Force runs over exact rationals <<n, d>>.  The       *)
(* pressure solvers only add, multiply, divide and test for zero; they run *)
(* over the prime field GF(PP), where the band solvers' intermediate       *)
(* values stay representable: an identity of exact arithmetic whose        *)
(* divisors are non-zero holds there too, and a value that is non-zero     *)
(* there is non-zero in exact arithmetic.                                  *)
(***************************************************************************)
EXTENDS Integers, Sequences, FiniteSets, TLC

VARIABLES
  \* the collaborators
  input,          \* Input *inputin: the configuration and the profile files
  grid,           \* Grid: geometry and metrics
  time,           \* model->timeloop->get_time()
  dt,             \* the time step handed to exec
  calcMeanProfs,  \* Fields: the mean-profile switch (set_calcMeanProfs)
  u, v, w,        \* fields->u, v, w
  ut, vt, wt,     \* fields->ut, vt, wt
  st,             \* fields->st: scalar name -> tendency field
  datamean,       \* fields->sp[name]->datamean: scalar name -> profile
  p,              \* the pressure field
  \* Force
  fstate,         \* lifecycle position of the Force object
  swlspres, swls, swwls, swtimedep,
  lslist, timedeplist,
  uflux, fc,
  ug, vg, wls,
  lsprofs,        \* name -> profile
  timedepdata,    \* name -> flattened [T x kmax] table
  timedeptime,    \* the shared time vector
  heap,           \* the free store as Force uses it: the block each of its
                  \* pointers holds, and the delete[] calls made on each block
  ncalls,         \* number of calls made on the created object
  last,           \* the last operation that ran
  \* the pressure solvers
  pres,           \* the cpres object: bmati, bmatj, a, b, c, d, xin, xout
  pres4,          \* the Pres_4 object: bmati, bmatj, m1 .. m7, and the slices
                  \* of fields->atmp its solve works in
  divmax,         \* the value the last divergence call returned
  lin             \* the arrays of a call of tdma or hdma made on its own: the
                  \* bands, the right-hand side and what the call left

forceVars == <<fstate, swlspres, swls, swwls, swtimedep, lslist, timedeplist,
               uflux, fc, ug, vg, wls, lsprofs, timedepdata, timedeptime, heap>>
fieldVars == <<u, v, w, ut, vt, wt, st, datamean, p>>
envVars   == <<input, grid, time, dt, calcMeanProfs>>
presVars  == <<pres, pres4, divmax, lin>>
vars      == <<envVars, fieldVars, forceVars, ncalls, last, presVars>>

---------------------------------------------------------------------------
(* Arithmetic of double.  A number is an exact rational <<n, d>> with       *)
(* d > 0 in lowest terms, or a residue <<n>> of the prime field GF(PP).    *)
(* NaN == <<0, 0>> stands for a non-finite double (a division by zero) and *)
(* is absorbing.  The two kinds are never mixed in one run.                *)

Abs(x) == IF x < 0 THEN -x ELSE x

RECURSIVE GCD(_, _)
GCD(x, y) == IF y = 0 THEN x ELSE GCD(y, x % y)

NaN == <<0, 0>>

Rat(n, d) ==
  IF d = 0 THEN NaN
  ELSE LET g == GCD(Abs(n), Abs(d))
           s == IF d < 0 THEN -1 ELSE 1
       IN  <<(s * n) \div g, (s * d) \div g>>

R(n) == <<n, 1>>

\* the largest prime whose square fits the 32 bit integers of the checker
PP == 46337
\* the residue of an integer
F(n) == <<n % PP>>
InField(x) == Len(x) = 1

\* the inverse of a residue 1 .. PP - 1: with q the integer nearest to PP / a
\* and r = PP - q * a, q * a = -r modulo PP and |r| <= a / 2
RECURSIVE Inv(_)
Inv(a) ==
  IF a = 1 THEN 1
  ELSE LET q == (2 * PP + a) \div (2 * a)
           r == PP - q * a
       IN  IF r > 0 THEN ((PP - q) * Inv(r)) % PP ELSE (q * Inv(-r)) % PP

IsNaN(x) == Len(x) = 2 /\ x[2] = 0

\* (a NaN operand has denominator zero, and so has the result Rat builds;
\* the operands are looked at before anything else is computed)
RAdd(x, y) == IF Len(x) = 1
              THEN (IF Len(y) = 1 THEN <<(x[1] + y[1]) % PP>> ELSE NaN)
              ELSE IF Len(y) = 1 THEN NaN
              ELSE Rat(x[1] * y[2] + y[1] * x[2], x[2] * y[2])
RNeg(x)    == IF Len(x) = 1 THEN <<(PP - x[1]) % PP>>
              ELSE IF x[2] = 0 THEN NaN
              ELSE <<-x[1], x[2]>>
RSub(x, y) == IF Len(x) = 1
              THEN (IF Len(y) = 1 THEN <<(x[1] + PP - y[1]) % PP>> ELSE NaN)
              ELSE IF Len(y) = 1 THEN NaN
              ELSE Rat(x[1] * y[2] - y[1] * x[2], x[2] * y[2])
RMul(x, y) == IF Len(x) = 1
              THEN (IF Len(y) = 1 THEN <<(x[1] * y[1]) % PP>> ELSE NaN)
              ELSE IF Len(y) = 1 THEN NaN
              ELSE Rat(x[1] * y[1], x[2] * y[2])
RDiv(x, y) == IF Len(x) = 1
              THEN (IF Len(y) = 1 /\ y[1] # 0 THEN <<(x[1] * Inv(y[1])) % PP>> ELSE NaN)
              ELSE IF Len(y) = 1 THEN NaN
              ELSE Rat(x[1] * y[2], x[2] * y[1])
\* std::abs and std::max; a residue is measured by its distance from zero
RAbs(x)    == IF IsNaN(x) THEN NaN
              ELSE IF InField(x) THEN <<IF 2 * x[1] > PP THEN PP - x[1] ELSE x[1]>>
              ELSE <<Abs(x[1]), x[2]>>
RMax(x, y) == IF IsNaN(x) \/ IsNaN(y) THEN x
              ELSE IF InField(x) THEN (IF x[1] < y[1] THEN y ELSE x)
              ELSE IF x[1] * y[2] < y[1] * x[2] THEN y ELSE x
\* comparisons; every comparison with NaN is false, as for doubles
RLt(x, y)  == ~IsNaN(x) /\ ~IsNaN(y) /\ x[1] * y[2] < y[1] * x[2]
RLe(x, y)  == ~IsNaN(x) /\ ~IsNaN(y) /\ x[1] * y[2] <= y[1] * x[2]
RGt(x, y)  == RLt(y, x)

RECURSIVE RSumTo(_, _)
\* s[1] + ... + s[n], accumulated from zero in loop order
RSumTo(s, n) == IF n = 0 THEN R(0)
                ELSE IF n = 1 THEN s[1]
                ELSE RAdd(RSumTo(s, n - 1), s[n])
RSum(s) == RSumTo(s, Len(s))

Range(f) == {f[x] : x \in DOMAIN f}

\* the number of calls made on a created object in one behaviour
MaxCalls == 2
\* the number of calls made in one behaviour once a pressure solver exists
MaxPresCalls == 3
\* the longest time axis of a time-dependent table
MaxT == 2

\* a null pointer, and the content of a freshly allocated double
Null   == <<>>
Uninit == <<0, -1>>

---------------------------------------------------------------------------
(* Grid: the geometry Force and the pressure solvers read.                 *)

\* a grid with itot x jtot x kmax cells, gc ghost cells on every side,
\* cell heights dzs[1..kmax] and inverse face spacings dzhis[1..kmax+1]
MakeGrid(itot, jtot, kmax, gc, order, dzs, dzhis, utrans, vtrans) ==
  [ itot |-> itot, jtot |-> jtot, ktot |-> kmax,
    imax |-> itot, jmax |-> jtot, kmax |-> kmax,
    igc |-> gc, jgc |-> gc, kgc |-> gc,
    icells |-> itot + 2 * gc, jcells |-> jtot + 2 * gc, kcells |-> kmax + 2 * gc,
    ijcells |-> (itot + 2 * gc) * (jtot + 2 * gc),
    ncells |-> (itot + 2 * gc) * (jtot + 2 * gc) * (kmax + 2 * gc),
    istart |-> gc, iend |-> gc + itot,
    jstart |-> gc, jend |-> gc + jtot,
    kstart |-> gc, kend |-> gc + kmax,
    swspatialorder |-> order,
    dz   |-> [k \in 0 .. kmax + 2 * gc - 1 |->
               IF k >= gc /\ k < gc + kmax THEN dzs[k - gc + 1] ELSE dzs[1]],
    dzhi |-> [k \in 0 .. kmax + 2 * gc - 1 |->
               IF k >= gc /\ k <= gc + kmax THEN dzhis[k - gc + 1] ELSE dzhis[1]],
    zsize |-> RSum(dzs),
    utrans |-> utrans, vtrans |-> vtrans ]

Cells == 0 .. grid.ncells - 1

IOf(n) == n % grid.icells
JOf(n) == (n \div grid.icells) % grid.jcells
KOf(n) == n \div grid.ijcells

Interior(n) ==
  /\ IOf(n) >= grid.istart /\ IOf(n) < grid.iend
  /\ JOf(n) >= grid.jstart /\ JOf(n) < grid.jend
  /\ KOf(n) >= grid.kstart /\ KOf(n) < grid.kend

\* the interior cells in the order of the loops k, j, i
InteriorSeq ==
  [n \in 1 .. grid.imax * grid.jmax * grid.kmax |->
     (grid.istart + ((n - 1) % grid.imax))
     + (grid.jstart + (((n - 1) \div grid.imax) % grid.jmax)) * grid.icells
     + (grid.kstart + ((n - 1) \div (grid.imax * grid.jmax))) * grid.ijcells]

\* the interior image of a cell under the horizontal periodicity
Wrap(x, start, tot) == start + ((x - start) % tot)
Image(n) == Wrap(IOf(n), grid.istart, grid.itot)
            + Wrap(JOf(n), grid.jstart, grid.jtot) * grid.icells
            + KOf(n) * grid.ijcells

\* a field whose horizontal halo holds the periodic images of its interior
boundary_cyclic(f) == [n \in DOMAIN f |-> f[Image(n)]]

---------------------------------------------------------------------------
(* Input: the configuration file and the profile files.                    *)
(*   input.items     key -> value           ([force] scalar keys)          *)
(*   input.lists     key -> list of names   ([force] list keys)            *)
(*   input.profs     name -> kmax values    (the profile columns)          *)
(*   input.timeprofs name -> [times, rows]  (the time-dependent tables)    *)

EmptyMap == [x \in {} |-> 0]
Put(m, k, val) == [x \in DOMAIN m \cup {k} |-> IF x = k THEN val ELSE m[x]]
InSeq(x, s) == \E n \in DOMAIN s : s[n] = x

\* getItem with a default: an absent key yields the default and no error
getItemDefault(key, default) ==
  IF key \in DOMAIN input.items THEN [val |-> input.items[key], err |-> 0]
  ELSE [val |-> default, err |-> 0]
\* getItem without a default: an absent key is an error, the target is not set
getItem(key) ==
  IF key \in DOMAIN input.items THEN [val |-> input.items[key], err |-> 0]
  ELSE [val |-> Uninit, err |-> 1]
\* getList: an absent key yields the empty list
getList(key) ==
  IF key \in DOMAIN input.lists THEN [val |-> input.lists[key], err |-> 0]
  ELSE [val |-> <<>>, err |-> 0]
\* getProf(&arr[kstart], name, kmax): fills the kmax interior levels
getProf(arr, name) ==
  IF name \in DOMAIN input.profs
  THEN [val |-> [k \in DOMAIN arr |->
                   IF k >= grid.kstart /\ k < grid.kstart + grid.kmax
                   THEN input.profs[name][k - grid.kstart + 1] ELSE arr[k]],
        err |-> 0]
  ELSE [val |-> arr, err |-> 1]
\* getTimeProf(&data, &timelist, name, kmax): appends the file's times to
\* timelist and allocates the flattened [T x kmax] table
getTimeProf(timelist, name) ==
  IF name \in DOMAIN input.timeprofs
  THEN LET f == input.timeprofs[name]
       IN  [time |-> timelist \o f.times,
            data |-> [n \in 0 .. Len(f.times) * grid.kmax - 1 |->
                        f.rows[(n \div grid.kmax) + 1][(n % grid.kmax) + 1]],
            err  |-> 0]
  ELSE [time |-> timelist, data |-> Null, err |-> 1]

\* Fields: the prognostic variables (ap), the scalars among them (sp, st)
FieldsSp == {"s", "q"}
FieldsAp == {"u", "v", "w"} \cup FieldsSp

---------------------------------------------------------------------------
(* Force::Force                                                            *)

\* ug = 0; vg = 0; wls = 0; and two empty maps: no block is held
NoBlocks == [at |-> [slot \in {"ug", "vg", "wls"} |-> 0], freed |-> <<>>]

\* nerror at the end of the constructor
Force_nerror ==
  LET lp == getItemDefault("swlspres", "0").val
      ls == getItemDefault("swls", "0").val
      wl == getItemDefault("swwls", "0").val
  IN  getItemDefault("swlspres", "0").err
      + getItemDefault("swls", "0").err
      + getItemDefault("swwls", "0").err
      + (IF lp # "0"
         THEN IF lp = "uflux" THEN getItem("uflux").err
              ELSE IF lp = "geo" THEN getItem("fc").err
              ELSE 1
         ELSE 0)
      + (IF ls = "1" THEN getList("lslist").err
         ELSE IF ls # "0" THEN 1 ELSE 0)
      + (IF wl = "1" THEN 0
         ELSE IF wl # "0" THEN 1 ELSE 0)
      + getItemDefault("swtimedep", "0").err
      + getList("timedeplist").err

\* the constructor that would switch the mean profiles on only when it succeeds
Force_ctor_switch_after_check ==
  /\ fstate = "none"
  /\ ug' = Null /\ vg' = Null /\ wls' = Null
  /\ swlspres' = getItemDefault("swlspres", "0").val
  /\ swls' = getItemDefault("swls", "0").val
  /\ swwls' = getItemDefault("swwls", "0").val
  /\ uflux' = IF swlspres' = "uflux" THEN getItem("uflux").val ELSE Uninit
  /\ fc' = IF swlspres' = "geo" THEN getItem("fc").val ELSE Uninit
  /\ lslist' = IF swls' = "1" THEN getList("lslist").val ELSE <<>>
  /\ calcMeanProfs' = IF swwls' = "1" /\ Force_nerror = 0 THEN TRUE ELSE calcMeanProfs
  /\ swtimedep' = getItemDefault("swtimedep", "0").val
  /\ timedeplist' = getList("timedeplist").val
  /\ lsprofs' = EmptyMap /\ timedepdata' = EmptyMap /\ timedeptime' = <<>>
  /\ heap' = NoBlocks
  \* throw 1: no object comes to exist
  /\ fstate' = IF Force_nerror # 0 THEN "thrown" ELSE "constructed"
  /\ last' = "Force"
  /\ UNCHANGED <<input, grid, time, dt, fieldVars, ncalls, presVars>>

Force_ctor ==
  /\ fstate = "none"
  /\ ug' = Null /\ vg' = Null /\ wls' = Null
  /\ swlspres' = getItemDefault("swlspres", "0").val
  /\ swls' = getItemDefault("swls", "0").val
  /\ swwls' = getItemDefault("swwls", "0").val
  /\ uflux' = IF swlspres' = "uflux" THEN getItem("uflux").val ELSE Uninit
  /\ fc' = IF swlspres' = "geo" THEN getItem("fc").val ELSE Uninit
  /\ lslist' = IF swls' = "1" THEN getList("lslist").val ELSE <<>>
  /\ calcMeanProfs' = IF swwls' = "1" THEN TRUE ELSE calcMeanProfs
  /\ swtimedep' = getItemDefault("swtimedep", "0").val
  /\ timedeplist' = getList("timedeplist").val
  /\ lsprofs' = EmptyMap /\ timedepdata' = EmptyMap /\ timedeptime' = <<>>
  /\ heap' = NoBlocks
  \* throw 1: no object comes to exist
  /\ fstate' = IF Force_nerror # 0 THEN "thrown" ELSE "constructed"
  /\ last' = "Force"
  /\ UNCHANGED <<input, grid, time, dt, fieldVars, ncalls, presVars>>

(* Force::init                                                             *)
NewArray == [k \in 0 .. grid.kcells - 1 |-> Uninit]

\* the slots of the two maps
LsSlot(name) == "lsprofs." \o name
TdSlot(name) == "timedepdata." \o name

\* slot = new double[..]: a fresh block, and the slot forgets what it held
New(h, slot) == [at    |-> Put(h.at, slot, Len(h.freed) + 1),
                 freed |-> Append(h.freed, 0)]

\* the loop of init over lslist: lsprofs[*it] = new double[grid->kcells]
RECURSIVE init_lsprofs(_, _)
init_lsprofs(n, h) ==
  IF n > Len(lslist) THEN h
  ELSE init_lsprofs(n + 1, New(h, LsSlot(lslist[n])))

\* the blocks init allocates, in its order
init_heap ==
  LET h1 == IF swlspres = "geo" THEN New(New(heap, "ug"), "vg") ELSE heap
      h2 == IF swls = "1" THEN init_lsprofs(1, h1) ELSE h1
  IN  IF swwls = "1" THEN New(h2, "wls") ELSE h2

Force_init ==
  /\ fstate = "constructed"
  /\ ug' = IF swlspres = "geo" THEN NewArray ELSE ug
  /\ vg' = IF swlspres = "geo" THEN NewArray ELSE vg
  /\ lsprofs' = IF swls = "1"
                THEN [name \in DOMAIN lsprofs \cup Range(lslist) |->
                        IF name \in Range(lslist) THEN NewArray ELSE lsprofs[name]]
                ELSE lsprofs
  /\ wls' = IF swwls = "1" THEN NewArray ELSE wls
  /\ heap' = init_heap
  /\ fstate' = "initialized"
  /\ last' = "init"
  /\ UNCHANGED <<envVars, fieldVars, swlspres, swls, swwls, swtimedep, lslist,
                 timedeplist, uflux, fc, timedepdata, timedeptime, ncalls, presVars>>

(* Force::create                                                           *)

\* the number of names of lslist that fields->ap does not hold
RECURSIVE create_illegal(_)
create_illegal(n) ==
  IF n = 0 THEN 0
  ELSE create_illegal(n - 1) + (IF lslist[n] \in FieldsAp THEN 0 ELSE 1)

\* the loop reading the large scale sources: acc = [profs, nerror]
RECURSIVE create_lsprofs(_, _)
create_lsprofs(n, acc) ==
  IF n > Len(lslist) THEN acc
  ELSE LET r == getProf(acc.profs[lslist[n]], lslist[n] \o "ls")
       IN  create_lsprofs(n + 1, [profs  |-> Put(acc.profs, lslist[n], r.val),
                                  nerror |-> acc.nerror + r.err])

\* the loop over lslist processing the time dependent data:
\* acc = [time, data, nerror]
RECURSIVE create_timedep(_, _)
create_timedep(n, acc) ==
  IF n > Len(lslist) THEN acc
  ELSE LET name == lslist[n] \o "ls"
           r    == getTimeProf(<<>>, name)      \* after timedeptime.clear()
       IN  create_timedep(n + 1,
             IF InSeq(lslist[n], timedeplist)
             THEN [time   |-> r.time,
                   data   |-> Put(acc.data, name, r.data),
                   nerror |-> acc.nerror + r.err]
             ELSE [acc EXCEPT !.time = <<>>])

\* the blocks getTimeProf allocates in the loop of create over lslist: a
\* successful call stores a fresh table in &timedepdata[name], a failed one
\* leaves the map entry it was handed as it is
RECURSIVE create_timedep_heap(_, _)
create_timedep_heap(n, h) ==
  IF n > Len(lslist) THEN h
  ELSE LET name == lslist[n] \o "ls"
       IN  create_timedep_heap(n + 1,
             IF InSeq(lslist[n], timedeplist)
             THEN IF getTimeProf(<<>>, name).err = 0
                  THEN New(h, TdSlot(name))
                  ELSE IF TdSlot(name) \in DOMAIN h.at THEN h
                       ELSE [h EXCEPT !.at = Put(h.at, TdSlot(name), 0)]
             ELSE h)

Force_create ==
  /\ fstate = "initialized"
  /\ LET rug == IF swlspres = "geo" THEN getProf(ug, "ug") ELSE [val |-> ug, err |-> 0]
         rvg == IF swlspres = "geo" THEN getProf(vg, "vg") ELSE [val |-> vg, err |-> 0]
         rls == IF swls = "1"
                THEN create_lsprofs(1, [profs |-> lsprofs,
                                        nerror |-> create_illegal(Len(lslist))])
                ELSE [profs |-> lsprofs, nerror |-> 0]
         rwl == IF swwls = "1" THEN getProf(wls, "wls") ELSE [val |-> wls, err |-> 0]
         rtd == IF swtimedep = "1"
                THEN create_timedep(1, [time |-> timedeptime, data |-> timedepdata,
                                        nerror |-> 0])
                ELSE [time |-> timedeptime, data |-> timedepdata, nerror |-> 0]
         nerror == rug.err + rvg.err + rls.nerror + rwl.err + rtd.nerror
     IN  /\ ug' = rug.val /\ vg' = rvg.val
         /\ lsprofs' = rls.profs
         /\ wls' = rwl.val
         /\ timedeptime' = rtd.time
         /\ timedepdata' = rtd.data
         /\ heap' = IF swtimedep = "1" THEN create_timedep_heap(1, heap) ELSE heap
         \* throw 1
         /\ fstate' = IF nerror # 0 THEN "create_thrown" ELSE "created"
  /\ last' = "create"
  /\ UNCHANGED <<envVars, fieldVars, swlspres, swls, swwls, swtimedep, lslist,
                 timedeplist, uflux, fc, ncalls, presVars>>

(* Force: the kernels                                                      *)

\* calcFlux without the mean tendency in the body force
calcFlux_no_utavg(utA, uA, dz, dtA) ==
  LET cells == InteriorSeq
      usum  == RSum([n \in DOMAIN cells |-> RMul(uA[cells[n]], dz[KOf(cells[n])])])
      ugrid == grid.utrans
      uavg  == RDiv(usum, RMul(R(grid.itot * grid.jtot), grid.zsize))
      fbody == RDiv(RSub(RSub(uflux, uavg), ugrid), dtA)
  IN  [n \in DOMAIN utA |-> RAdd(utA[n], fbody)]

\* Force::calcFlux; getSum adds the partial sums of the ranks (one rank here)
calcFlux(utA, uA, dz, dtA) ==
  LET cells == InteriorSeq
      usum  == RSum([n \in DOMAIN cells |-> RMul(uA[cells[n]], dz[KOf(cells[n])])])
      utsum == RSum([n \in DOMAIN cells |-> RMul(utA[cells[n]], dz[KOf(cells[n])])])
      ugrid == grid.utrans
      uavg  == RDiv(usum, RMul(R(grid.itot * grid.jtot), grid.zsize))
      utavg == RDiv(utsum, RMul(R(grid.itot * grid.jtot), grid.zsize))
      fbody == RSub(RDiv(RSub(RSub(uflux, uavg), ugrid), dtA), utavg)
  IN  [n \in DOMAIN utA |-> RAdd(utA[n], fbody)]

\* calcCoriolis_2nd with the v stencil of ut moved one cell to the right
calcCoriolis_2nd_shifted(utA, vtA, uA, vA, ugA, vgA) ==
  LET ii == 1
      jj == grid.icells
      ugrid == grid.utrans
      vgrid == grid.vtrans
      quarter == Rat(1, 4)
  IN  [ut |-> [n \in DOMAIN utA |->
                 IF Interior(n)
                 THEN RAdd(utA[n], RMul(fc,
                        RSub(RAdd(RMul(quarter,
                               RAdd(RAdd(RAdd(vA[n], vA[n + ii]), vA[n + jj]), vA[n + ii + jj])),
                             vgrid), vgA[KOf(n)])))
                 ELSE utA[n]],
       vt |-> [n \in DOMAIN vtA |->
                 IF Interior(n)
                 THEN RSub(vtA[n], RMul(fc,
                        RSub(RAdd(RMul(quarter,
                               RAdd(RAdd(RAdd(uA[n - jj], uA[n]), uA[n + ii - jj]), uA[n + ii])),
                             ugrid), ugA[KOf(n)])))
                 ELSE vtA[n]]]

\* Force::calcCoriolis_2nd: the new ut and vt
calcCoriolis_2nd(utA, vtA, uA, vA, ugA, vgA) ==
  LET ii == 1
      jj == grid.icells
      ugrid == grid.utrans
      vgrid == grid.vtrans
      quarter == Rat(1, 4)
  IN  [ut |-> [n \in DOMAIN utA |->
                 IF Interior(n)
                 THEN RAdd(utA[n], RMul(fc,
                        RSub(RAdd(RMul(quarter,
                               RAdd(RAdd(RAdd(vA[n - ii], vA[n]), vA[n - ii + jj]), vA[n + jj])),
                             vgrid), vgA[KOf(n)])))
                 ELSE utA[n]],
       vt |-> [n \in DOMAIN vtA |->
                 IF Interior(n)
                 THEN RSub(vtA[n], RMul(fc,
                        RSub(RAdd(RMul(quarter,
                               RAdd(RAdd(RAdd(uA[n - jj], uA[n]), uA[n + ii - jj]), uA[n + ii])),
                             ugrid), ugA[KOf(n)])))
                 ELSE vtA[n]]]

\* fd::o4: the fourth order interpolation coefficients
ci0 == Rat(-1, 16)
ci1 == Rat(9, 16)
ci2 == Rat(9, 16)
ci3 == Rat(-1, 16)

\* ci0*a + ci1*b + ci2*c + ci3*d
interp4(a, b, c, d) ==
  RAdd(RAdd(RAdd(RMul(ci0, a), RMul(ci1, b)), RMul(ci2, c)), RMul(ci3, d))

\* Force::calcCoriolis_4th: the new ut and vt
calcCoriolis_4th(utA, vtA, uA, vA, ugA, vgA) ==
  LET ii1 == 1
      ii2 == 2
      jj1 == grid.icells
      jj2 == 2 * grid.icells
      ugrid == grid.utrans
      vgrid == grid.vtrans
      vrow(n) == interp4(vA[n - ii2], vA[n - ii1], vA[n], vA[n + ii1])
      urow(n) == interp4(uA[n - ii1], uA[n], uA[n + ii1], uA[n + ii2])
  IN  [ut |-> [n \in DOMAIN utA |->
                 IF Interior(n)
                 THEN RAdd(utA[n], RMul(fc,
                        RSub(RAdd(interp4(vrow(n - jj1), vrow(n), vrow(n + jj1), vrow(n + jj2)),
                                  vgrid), vgA[KOf(n)])))
                 ELSE utA[n]],
       vt |-> [n \in DOMAIN vtA |->
                 IF Interior(n)
                 THEN RSub(vtA[n], RMul(fc,
                        RSub(RAdd(interp4(urow(n - jj2), urow(n - jj1), urow(n), urow(n + jj1)),
                                  ugrid), ugA[KOf(n)])))
                 ELSE vtA[n]]]

\* a source kernel whose iteration for a cell reads the cell to its west,
\* which another iteration writes
calcLargeScaleSource_from_west(stA, sls) ==
  [n \in DOMAIN stA |-> IF Interior(n) THEN RAdd(stA[n - 1], sls[KOf(n)]) ELSE stA[n]]

\* Force::calcLargeScaleSource
calcLargeScaleSource(stA, sls) ==
  [n \in DOMAIN stA |-> IF Interior(n) THEN RAdd(stA[n], sls[KOf(n)]) ELSE stA[n]]

\* advec_wls_2nd with the two one-sided differences exchanged
advec_wls_2nd_downwind(stA, s, wlsA, dzhi) ==
  [n \in DOMAIN stA |->
     IF Interior(n)
     THEN LET k == KOf(n)
          IN  IF RGt(wlsA[k], R(0))
              THEN RSub(stA[n], RMul(RMul(wlsA[k], RSub(s[k + 1], s[k])), dzhi[k + 1]))
              ELSE RSub(stA[n], RMul(RMul(wlsA[k], RSub(s[k], s[k - 1])), dzhi[k]))
     ELSE stA[n]]

\* Force::advec_wls_2nd
advec_wls_2nd(stA, s, wlsA, dzhi) ==
  [n \in DOMAIN stA |->
     IF Interior(n)
     THEN LET k == KOf(n)
          IN  IF RGt(wlsA[k], R(0))
              THEN RSub(stA[n], RMul(RMul(wlsA[k], RSub(s[k], s[k - 1])), dzhi[k]))
              ELSE RSub(stA[n], RMul(RMul(wlsA[k], RSub(s[k + 1], s[k])), dzhi[k + 1]))
     ELSE stA[n]]

(* Force::exec                                                             *)

\* the loop over lslist adding the large scale sources
RECURSIVE exec_ls(_, _)
exec_ls(n, stA) ==
  IF n > Len(lslist) THEN stA
  ELSE exec_ls(n + 1, [stA EXCEPT ![lslist[n]] =
                         calcLargeScaleSource(stA[lslist[n]], lsprofs[lslist[n]])])

exec_coriolis ==
  IF grid.swspatialorder = "2" THEN calcCoriolis_2nd(ut, vt, u, v, ug, vg)
  ELSE IF grid.swspatialorder = "4" THEN calcCoriolis_4th(ut, vt, u, v, ug, vg)
  ELSE [ut |-> ut, vt |-> vt]

\* fields->st[*it] of a name that st does not hold is a null pointer
exec_null == swls = "1" /\ \E n \in DOMAIN lslist : lslist[n] \notin DOMAIN st

Force_exec ==
  /\ fstate = "created"
  /\ ncalls < MaxCalls
  /\ IF exec_null
     THEN \* the null pointer is dereferenced
          /\ fstate' = "crashed"
          /\ UNCHANGED <<ut, vt, st>>
     ELSE /\ fstate' = fstate
          /\ ut' = IF swlspres = "uflux" THEN calcFlux(ut, u, grid.dz, dt)
                   ELSE IF swlspres = "geo" THEN exec_coriolis.ut
                   ELSE ut
          /\ vt' = IF swlspres = "geo" THEN exec_coriolis.vt ELSE vt
          /\ LET st1 == IF swls = "1" THEN exec_ls(1, st) ELSE st
             IN  st' = IF swwls = "1"
                       THEN [name \in DOMAIN st1 |->
                               advec_wls_2nd(st1[name], datamean[name], wls, grid.dzhi)]
                       ELSE st1
  /\ ncalls' = ncalls + 1
  /\ last' = "exec"
  /\ UNCHANGED <<envVars, u, v, w, wt, datamean, p, swlspres, swls, swwls, swtimedep,
                 lslist, timedeplist, uflux, fc, ug, vg, wls, lsprofs, timedepdata,
                 timedeptime, heap, presVars>>

(* Force::updateTimeDep                                                    *)

\* the search loop leaving at the first entry that is not before the clock
RECURSIVE updateTimeDep_index1_le(_)
updateTimeDep_index1_le(n) ==
  IF n >= Len(timedeptime) THEN n
  ELSE IF RLe(time, timedeptime[n + 1]) THEN n
  ELSE updateTimeDep_index1_le(n + 1)

\* the number of leading entries of timedeptime the search loop passes
RECURSIVE updateTimeDep_index1(_)
updateTimeDep_index1(n) ==
  IF n >= Len(timedeptime) THEN n
  ELSE IF RLt(time, timedeptime[n + 1]) THEN n
  ELSE updateTimeDep_index1(n + 1)

\* updateTimeDep_args with the two weights of the interpolating branch exchanged
updateTimeDep_args_swapped ==
  LET i1 == updateTimeDep_index1(0)
  IN  IF i1 = 0
      THEN [fac0 |-> R(0), fac1 |-> R(1), index0 |-> 0, index1 |-> 0]
      ELSE IF i1 = Len(timedeptime)
      THEN [fac0 |-> R(1), fac1 |-> R(0), index0 |-> i1 - 1, index1 |-> i1 - 1]
      ELSE LET i0 == i1 - 1
               timestep == RSub(timedeptime[i1 + 1], timedeptime[i0 + 1])
           IN  [fac0 |-> RDiv(RSub(time, timedeptime[i0 + 1]), timestep),
                fac1 |-> RDiv(RSub(timedeptime[i1 + 1], time), timestep),
                index0 |-> i0, index1 |-> i1]

\* the arguments handed to updateTimeDepProfs
updateTimeDep_args ==
  LET i1 == updateTimeDep_index1(0)
  IN  IF i1 = 0
      THEN [fac0 |-> R(0), fac1 |-> R(1), index0 |-> 0, index1 |-> 0]
      ELSE IF i1 = Len(timedeptime)
      THEN [fac0 |-> R(1), fac1 |-> R(0), index0 |-> i1 - 1, index1 |-> i1 - 1]
      ELSE LET i0 == i1 - 1
               timestep == RSub(timedeptime[i1 + 1], timedeptime[i0 + 1])
           IN  [fac0 |-> RDiv(RSub(timedeptime[i1 + 1], time), timestep),
                fac1 |-> RDiv(RSub(time, timedeptime[i0 + 1]), timestep),
                index0 |-> i0, index1 |-> i1]

\* Force::updateTimeDepProfs: the new lsprofs
updateTimeDepProfs(fac0, fac1, index0, index1) ==
  LET kk == grid.kmax
      kgc == grid.kgc
  IN  [name \in DOMAIN lsprofs |->
         IF InSeq(name, lslist) /\ (name \o "ls") \in DOMAIN timedepdata
         THEN [k \in DOMAIN lsprofs[name] |->
                 IF k >= kgc /\ k < kgc + grid.kmax
                 THEN RAdd(RMul(fac0, timedepdata[name \o "ls"][index0 * kk + (k - kgc)]),
                           RMul(fac1, timedepdata[name \o "ls"][index1 * kk + (k - kgc)]))
                 ELSE lsprofs[name][k]]
         ELSE lsprofs[name]]

Force_updateTimeDep ==
  /\ fstate = "created"
  /\ ncalls < MaxCalls
  /\ lsprofs' = IF swtimedep = "0" THEN lsprofs
                ELSE LET a == updateTimeDep_args
                     IN  updateTimeDepProfs(a.fac0, a.fac1, a.index0, a.index1)
  /\ ncalls' = ncalls + 1
  /\ last' = "updateTimeDep"
  /\ UNCHANGED <<envVars, fieldVars, fstate, swlspres, swls, swwls, swtimedep, lslist,
                 timedeplist, uflux, fc, ug, vg, wls, timedepdata, timedeptime, heap,
                 presVars>>

(* The time loop: the Euler update of the velocities with the tendencies,  *)
(* the cyclic halo exchange that follows it, the ghost levels of w in a    *)
(* fourth order run, and the clock.                                        *)
Euler(a, at) ==
  IF a = Null THEN a
  ELSE boundary_cyclic([n \in DOMAIN a |-> RAdd(a[n], RMul(dt, at[n]))])

\* the first ghost level of w below and above the walls mirrors, with the
\* opposite sign, the first level inside, as Pres_4::input mirrors wt
set_ghost_cells_w(wA) ==
  IF wA = Null \/ grid.swspatialorder # "4" THEN wA
  ELSE [n \in DOMAIN wA |->
          IF KOf(n) = grid.kstart - 1 THEN RNeg(wA[n + 2 * grid.ijcells])
          ELSE IF KOf(n) = grid.kend + 1 THEN RNeg(wA[n - 2 * grid.ijcells])
          ELSE wA[n]]

timeloop_exec ==
  /\ fstate = "created"
  /\ ncalls < (IF pres = Null /\ pres4 = Null THEN MaxCalls ELSE MaxPresCalls)
  /\ u' = Euler(u, ut)
  /\ v' = Euler(v, vt)
  /\ w' = set_ghost_cells_w(Euler(w, wt))
  /\ time' = RAdd(time, dt)
  /\ ncalls' = ncalls + 1
  /\ last' = "timeloop"
  /\ UNCHANGED <<input, grid, dt, calcMeanProfs, ut, vt, wt, st, datamean, p, forceVars,
                 presVars>>

(* Force::~Force                                                           *)

\* delete[] of what a slot holds; delete[] of a null pointer does nothing, and
\* lsprofs[*it] of a name the map does not hold is a null pointer
Delete(h, slot) ==
  IF slot \notin DOMAIN h.at THEN h
  ELSE IF h.at[slot] = 0 THEN h
  ELSE [h EXCEPT !.freed[h.at[slot]] = @ + 1]

\* the loop of the destructor over lslist: delete[] lsprofs[*it]
RECURSIVE dtor_lsprofs(_, _)
dtor_lsprofs(n, h) ==
  IF n > Len(lslist) THEN h
  ELSE dtor_lsprofs(n + 1, Delete(h, LsSlot(lslist[n])))

\* the loop of the destructor over the entries of timedepdata
RECURSIVE dtor_timedepdata(_, _)
dtor_timedepdata(names, h) ==
  IF names = {} THEN h
  ELSE LET name == CHOOSE x \in names : TRUE
       IN  dtor_timedepdata(names \ {name}, Delete(h, TdSlot(name)))

\* the delete[] calls of the destructor, in its order
dtor_heap ==
  LET h1 == Delete(Delete(Delete(heap, "ug"), "vg"), "wls")
      h2 == IF swls = "1" THEN dtor_lsprofs(1, h1) ELSE h1
  IN  dtor_timedepdata(DOMAIN timedepdata, h2)

Force_dtor ==
  /\ fstate \in {"constructed", "initialized", "created", "create_thrown"}
  /\ \E h \in {dtor_heap} :
       /\ heap' = h
       \* a second delete[] of a block is undefined: the run goes on or aborts
       /\ IF \E b \in DOMAIN h.freed : h.freed[b] > 1
          THEN fstate' \in {"destroyed", "crashed"}
          ELSE fstate' = "destroyed"
  /\ last' = "~Force"
  /\ UNCHANGED <<envVars, fieldVars, swlspres, swls, swwls, swtimedep, lslist,
                 timedeplist, uflux, fc, ug, vg, wls, lsprofs, timedepdata,
                 timedeptime, ncalls, presVars>>

NextForce ==
  \/ Force_ctor
  \/ Force_init
  \/ Force_create
  \/ Force_updateTimeDep
  \/ Force_exec
  \/ timeloop_exec

---------------------------------------------------------------------------
(* The specifications of Force.  They share NextForce and differ in the    *)
(* configurations and fields their initial states draw from.               *)

InteriorCells == {n \in Cells : Interior(n)}

\* the field with the given interior values, periodic halos and zero ghost levels
FieldOf(g) ==
  [n \in Cells |-> IF KOf(n) >= grid.kstart /\ KOf(n) < grid.kend
                   THEN g[Image(n)] ELSE R(0)]
FieldSet(V) == {FieldOf(g) : g \in [InteriorCells -> V]}
ZeroField == [n \in Cells |-> R(0)]
ZeroProf  == [k \in 0 .. grid.kcells - 1 |-> R(0)]
ProfSet(V) == [0 .. grid.kcells - 1 -> V]

Absent == "absent"
\* the [force] keys that are present, with their values
Items(lp, ls, wl, td, uf, f) ==
  LET given == [swlspres |-> lp, swls |-> ls, swwls |-> wl, swtimedep |-> td,
                uflux |-> uf, fc |-> f]
  IN  [k \in {x \in DOMAIN given : given[x] # Absent} |-> given[k]]

\* the profile column of a name: level k (1..kmax) holds 10 + k, 20 + k, ...
ProfileOf(base) == [k \in 1 .. grid.kmax |-> R(base + k)]
\* row r (1..T) of the table of a name
TableRows(base, T) == [r \in 1 .. T |-> [k \in 1 .. grid.kmax |-> R(base + 10 * r + k)]]

InitObject ==
  /\ fstate = "none"
  /\ swlspres = Null /\ swls = Null /\ swwls = Null /\ swtimedep = Null
  /\ lslist = Null /\ timedeplist = Null
  /\ uflux = Null /\ fc = Null
  /\ ug = Null /\ vg = Null /\ wls = Null
  /\ lsprofs = Null /\ timedepdata = Null /\ timedeptime = Null
  /\ heap = Null
  /\ ncalls = 0
  /\ last = "start"
  /\ calcMeanProfs = FALSE
  /\ w = Null /\ wt = Null /\ p = Null
  /\ pres = Null /\ pres4 = Null /\ divmax = Null /\ lin = Null

UnitGrid == MakeGrid(1, 1, 1, 1, "2", <<R(1)>>, <<R(1), R(1)>>, R(0), R(0))

\* SpecCtor: every combination of switch values, legal and illegal
InitCtor ==
  /\ InitObject
  /\ grid = UnitGrid
  /\ \E lp \in {Absent, "0", "uflux", "geo", "1"},
        ls \in {Absent, "0", "1", "2"},
        wl \in {Absent, "0", "1", "2"},
        td \in {Absent, "0", "1", "2"},
        uf \in {Absent, R(1)},
        f  \in {Absent, R(1)} :
       input = [items |-> Items(lp, ls, wl, td, uf, f),
                lists |-> [k \in {"lslist", "timedeplist"} |-> <<"s">>],
                profs |-> [k \in {"ug", "vg", "wls", "sls"} |-> ProfileOf(0)],
                timeprofs |-> [k \in {"sls"} |->
                                 [times |-> <<R(0), R(2)>>, rows |-> TableRows(0, 2)]]]
  /\ time = R(1)
  /\ dt = R(1)
  /\ u = FieldOf([n \in InteriorCells |-> R(1)])
  /\ v = ZeroField /\ ut = ZeroField /\ vt = ZeroField
  /\ st = [name \in FieldsSp |-> ZeroField]
  /\ datamean = [name \in FieldsSp |-> ZeroProf]

SpecCtor == InitCtor /\ [][NextForce]_vars

\* the configured value of a switch (an absent key takes the default "0")
Configured(key) == IF key \in DOMAIN input.items THEN input.items[key] ELSE "0"

SwitchesLegal ==
  /\ Configured("swlspres") \in {"0", "uflux", "geo"}
  /\ Configured("swls") \in {"0", "1"}
  /\ Configured("swwls") \in {"0", "1"}
  /\ Configured("swtimedep") \in {"0", "1"}

RequiredKeysPresent ==
  /\ Configured("swlspres") = "uflux" => "uflux" \in DOMAIN input.items
  /\ Configured("swlspres") = "geo" => "fc" \in DOMAIN input.items
  /\ Configured("swls") = "1" => "lslist" \in DOMAIN input.lists
  /\ Configured("swtimedep") = "1" => "timedeplist" \in DOMAIN input.lists

\* C6: once the constructor has run, a value outside its domain in any of the
\* four switches swlspres, swls, swwls, swtimedep has made it throw, and a
\* configuration with the four values legal and the required keys present has
\* constructed the object.
C6_SwitchValidation ==
  fstate # "none" =>
    /\ ~SwitchesLegal => fstate = "thrown"
    /\ (SwitchesLegal /\ RequiredKeysPresent) => fstate # "thrown"

---------------------------------------------------------------------------
\* SpecTime: large scale sources with time-dependent tables; every lslist and
\* timedeplist of LsLists and TdLists, every time axis of up to MaxT entries
\* (increasing or not, with or without repeated entries), several clock values
ColumnGrid == MakeGrid(1, 1, 2, 1, "2", <<R(1), R(1)>>, <<R(1), R(1), R(1)>>, R(0), R(0))

LsLists == {<<"s">>, <<"s", "q">>, <<"q", "s">>, <<"u">>, <<"s", "u">>, <<"x">>}
TdLists == {<<>>, <<"s">>, <<"q">>, <<"s", "q">>}
TimeAxes == UNION {[1 .. n -> {R(0), R(2), R(4)}] : n \in 1 .. MaxT}
Clock == {R(-1), R(0), R(1), R(2), R(3), R(4), R(5)}

InitTime ==
  /\ InitObject
  /\ grid = ColumnGrid
  /\ \E ll \in LsLists, tl \in TdLists, axis \in TimeAxes :
       input = [items |-> Items(Absent, "1", Absent, "1", Absent, Absent),
                lists |-> [k \in {"lslist", "timedeplist"} |->
                             IF k = "lslist" THEN ll ELSE tl],
                profs |-> [k \in {"sls", "qls", "uls"} |->
                             ProfileOf(IF k = "sls" THEN 100 ELSE IF k = "qls" THEN 200 ELSE 300)],
                timeprofs |-> [k \in {"sls", "qls"} |->
                                 [times |-> axis,
                                  rows |-> TableRows(IF k = "sls" THEN 0 ELSE 50, Len(axis))]]]
  /\ time \in Clock
  /\ dt = R(1)
  /\ u = ZeroField /\ v = ZeroField /\ ut = ZeroField /\ vt = ZeroField
  /\ st = [name \in FieldsSp |-> ZeroField]
  /\ datamean = [name \in FieldsSp |-> ZeroProf]

SpecTime == InitTime /\ [][NextForce]_vars

StrictlyIncreasing(s) == \A n \in 1 .. Len(s) - 1 : RLt(s[n], s[n + 1])

\* the names that have a time-dependent table
TimeDepNames == {name \in Range(lslist) : (name \o "ls") \in DOMAIN timedepdata}

\* row r (0-based), level k (0-based) of the table of a name, as it is in the file
TableAt(name, r, k) == input.timeprofs[name \o "ls"].rows[r + 1][k + 1]

\* the published profile of a name equals table row r
PublishedRow(name, r) ==
  \A k \in 0 .. grid.kmax - 1 : lsprofs[name][k + grid.kgc] = TableAt(name, r, k)

\* the published profile of a name is the blend of the rows i1 - 1 and i1 at time t
PublishedBlend(name, times, t, i1) ==
  LET step == RSub(times[i1 + 1], times[i1])
      w0 == RDiv(RSub(times[i1 + 1], t), step)
      w1 == RDiv(RSub(t, times[i1]), step)
  IN  \A k \in 0 .. grid.kmax - 1 :
        lsprofs[name][k + grid.kgc]
          = RAdd(RMul(w0, TableAt(name, i1 - 1, k)), RMul(w1, TableAt(name, i1, k)))

\* the smallest 0-based index with times[i] > t, Len(times) if there is none
FirstLater(times, t) ==
  IF \E i \in 1 .. Len(times) : RLt(t, times[i])
  THEN (CHOOSE i \in 1 .. Len(times) :
          RLt(t, times[i]) /\ \A j \in 1 .. i - 1 : ~RLt(t, times[j])) - 1
  ELSE Len(times)

InterpolationAt(times, t) ==
  \A name \in TimeDepNames :
    /\ RLe(t, times[1]) => PublishedRow(name, 0)
    /\ RLe(times[Len(times)], t) => PublishedRow(name, Len(times) - 1)
    /\ (RLt(times[1], t) /\ RLt(t, times[Len(times)]))
         => PublishedBlend(name, times, t, FirstLater(times, t))

\* C4 as stated: right after updateTimeDep, with any non-empty time vector, the
\* published profile is table row 0 for t <= times[0], row T-1 for
\* t >= times[T-1], and otherwise the linear blend of the rows i1-1 and i1,
\* i1 the smallest index with times[i1] > t.
C4_AnyTimeVector ==
  (last = "updateTimeDep" /\ swtimedep = "1" /\ timedeptime # <<>>)
    => InterpolationAt(timedeptime, time)

\* C4 amended: the same, for a strictly increasing time vector.
C4_Interpolation ==
  (last = "updateTimeDep" /\ swtimedep = "1" /\ timedeptime # <<>>
     /\ StrictlyIncreasing(timedeptime))
    => InterpolationAt(timedeptime, time)

\* an update strictly inside a strictly increasing axis, off the table times
C4_Witness ==
  /\ last = "updateTimeDep" /\ swtimedep = "1"
  /\ Len(timedeptime) >= 2 /\ StrictlyIncreasing(timedeptime)
  /\ RLt(timedeptime[1], time) /\ RLt(time, timedeptime[2])
  /\ TimeDepNames # {}

\* the time axis of the files of the names that are in both lists
InBoth == {name \in Range(lslist) : InSeq(name, timedeplist)}

\* C5: after create with swls = "1" and swtimedep = "1", whatever the two
\* lists, timedeptime holds the time axis loaded for the time-dependent
\* profiles, and an updateTimeDep strictly between two table times publishes,
\* for every name of both lists, the blend of its two neighbouring rows.
C5_SharedTimeAxis ==
  (fstate = "created" /\ swls = "1" /\ swtimedep = "1" /\ InBoth # {}
     /\ \A n \in DOMAIN lslist : lslist[n] \in FieldsSp)
    => \A name \in InBoth :
         LET axis == input.timeprofs[name \o "ls"].times
         IN  /\ timedeptime = axis
             /\ (last = "updateTimeDep" /\ StrictlyIncreasing(axis)
                   /\ RLt(axis[1], time) /\ RLt(time, axis[Len(axis)])
                   /\ \A n \in DOMAIN axis : axis[n] # time)
                  => PublishedBlend(name, axis, time, FirstLater(axis, time))

\* C7: create has thrown whenever lslist holds a name that is no prognostic
\* scalar: on a created object with swls = "1" every name of lslist has a
\* tendency array in fields->st.
C7_LslistValidation ==
  (fstate \in {"created", "crashed"} /\ swls = "1")
    => \A n \in DOMAIN lslist : lslist[n] \in DOMAIN st

---------------------------------------------------------------------------
\* SpecFlux: the fixed-flux body force on a 2 x 1 x 2 grid, uniform and
\* non-uniform levels, every u in {0,1} and ut in {-1,1} on the interior
FluxGrids ==
  {MakeGrid(2, 1, 2, 1, "2", <<R(1), R(1)>>, <<R(1), R(1), R(1)>>, R(0), R(0)),
   MakeGrid(2, 1, 2, 1, "2", <<R(1), R(3)>>, <<R(1), R(1), R(1)>>, R(1), R(0))}

InitFlux ==
  /\ InitObject
  /\ grid \in FluxGrids
  /\ \E uf \in {R(3)} :
       input = [items |-> Items("uflux", Absent, Absent, Absent, uf, Absent),
                lists |-> EmptyMap, profs |-> EmptyMap, timeprofs |-> EmptyMap]
  /\ time = R(0)
  /\ dt \in {R(0), Rat(1, 2), R(2)}
  /\ u \in FieldSet({R(0), R(1)})
  /\ ut \in FieldSet({R(-1), R(1)})
  /\ v = ZeroField /\ vt = ZeroField
  /\ st = [name \in FieldsSp |-> ZeroField]
  /\ datamean = [name \in FieldsSp |-> ZeroProf]

SpecFlux == InitFlux /\ [][NextForce]_vars

\* the dz-weighted mean of a field over the interior
VolumeMean(f) ==
  LET cells == InteriorSeq
  IN  RDiv(RSum([n \in DOMAIN cells |-> RMul(f[cells[n]], grid.dz[KOf(cells[n])])]),
           RMul(R(grid.itot * grid.jtot), grid.zsize))

\* C3: with swlspres = "uflux" and dt # 0, exec adds to every cell of ut the
\* one value (uflux - <u> - utrans)/dt - <ut>, and the Euler update of u that
\* follows it leaves the volume mean of u plus utrans equal to uflux.
C3_DeadBeat ==
  [][(swlspres = "uflux" /\ dt # R(0) /\ fstate' = "created")
       => /\ last' = "exec"
               => \A n \in Cells :
                    RSub(ut'[n], ut[n])
                      = RSub(RDiv(RSub(RSub(uflux, VolumeMean(u)), grid.utrans), dt),
                             VolumeMean(ut))
          /\ (last = "exec" /\ last' = "timeloop")
               => RAdd(VolumeMean(u'), grid.utrans) = uflux]_vars

\* an Euler update after exec that moved the mean of u: non-uniform levels,
\* a translation velocity, and a u that is not uniform
C3_Witness ==
  /\ swlspres = "uflux" /\ last = "timeloop" /\ ncalls = 2 /\ dt = Rat(1, 2)
  /\ grid.utrans = R(1) /\ grid.dz[grid.kstart + 1] = R(3)
  /\ RAdd(VolumeMean(u), grid.utrans) = R(3)
  /\ \E n, m \in InteriorCells : u[n] # u[m]

---------------------------------------------------------------------------
\* SpecWls: large scale vertical velocity on a column of two levels, every
\* wls in {-1,0,1,2} and every mean profile of s in {0,1,2} per level, the
\* mean profile of q equal to the level index
WlsGrids ==
  {MakeGrid(1, 1, 2, 1, "2", <<R(1), R(1)>>, dzhis, R(0), R(0)) :
     dzhis \in {<<R(1), R(1), R(1)>>, <<R(2), Rat(1, 2), R(3)>>}}

InitWls ==
  /\ InitObject
  /\ grid \in WlsGrids
  /\ \E ls \in {"0", "1"}, wl \in [1 .. grid.kmax -> {R(-1), R(0), R(1), R(2)}] :
       input = [items |-> Items(Absent, ls, "1", Absent, Absent, Absent),
                lists |-> [k \in {"lslist"} |-> <<"s">>],
                profs |-> [k \in {"sls", "wls"} |-> IF k = "sls" THEN ProfileOf(10) ELSE wl],
                timeprofs |-> EmptyMap]
  /\ time = R(0)
  /\ dt = R(1)
  /\ u = ZeroField /\ v = ZeroField /\ ut = ZeroField /\ vt = ZeroField
  /\ st = [name \in FieldsSp |-> ZeroField]
  /\ \E sm \in ProfSet({R(0), R(1), R(2)}) :
       datamean = [name \in FieldsSp |->
                     IF name = "s" THEN sm ELSE [k \in 0 .. grid.kcells - 1 |-> R(k)]]

SpecWls == InitWls /\ [][NextForce]_vars

\* what exec adds to st[name] at level k besides the subsidence term
LargeScaleSource(name, k) ==
  IF swls = "1" /\ InSeq(name, lslist) THEN lsprofs[name][k] ELSE R(0)

\* the upwind subsidence term of a scalar at level k
Upwind(name, k) ==
  IF RGt(wls[k], R(0))
  THEN RNeg(RMul(RMul(wls[k], RSub(datamean[name][k], datamean[name][k - 1])),
                 grid.dzhi[k]))
  ELSE RNeg(RMul(RMul(wls[k], RSub(datamean[name][k + 1], datamean[name][k])),
                 grid.dzhi[k + 1]))

NonDecreasing(s) == \A k \in DOMAIN s : (k + 1) \in DOMAIN s => RLe(s[k], s[k + 1])

\* C8: with swwls = "1", exec changes st of every scalar at every interior
\* cell of level k by -wls[k]*(s[k]-s[k-1])*dzhi[k] when wls[k] > 0 and by
\* -wls[k]*(s[k+1]-s[k])*dzhi[k+1] otherwise (0 for wls[k] = 0); for
\* wls[k] > 0 and a non-decreasing s the tendency does not increase, and for
\* wls[k] = 1 and s[k] = k the change is -dzhi[k].
C8_Upwind ==
  [][(last' = "exec" /\ fstate' = "created" /\ swwls = "1")
       => \A name \in DOMAIN st : \A n \in InteriorCells :
            LET k == KOf(n)
                change == RSub(RSub(st'[name][n], st[name][n]), LargeScaleSource(name, k))
            IN  /\ change = Upwind(name, k)
                /\ wls[k] = R(0) => change = R(0)
                /\ (RGt(wls[k], R(0)) /\ NonDecreasing(datamean[name]))
                     => RLe(change, R(0))
                /\ (wls[k] = R(1) /\ \A l \in DOMAIN datamean[name] :
                                       datamean[name][l] = R(l))
                     => change = RNeg(grid.dzhi[k])]_vars

\* after one exec: a level with wls = 1 where st of q, whose mean profile is
\* the level index, has come to -dzhi[k] = -1/2 from 0, and a level with
\* wls < 0 where st of s has changed by the upper one-sided difference
C8_Witness ==
  /\ last = "exec" /\ ncalls = 1 /\ swwls = "1" /\ swls = "0"
  /\ \E n \in InteriorCells :
       wls[KOf(n)] = R(1) /\ st["q"][n] = Rat(-1, 2) /\ grid.dzhi[KOf(n)] = Rat(1, 2)
  /\ \E n \in InteriorCells :
       /\ RLt(wls[KOf(n)], R(0))
       /\ st["s"][n] # R(0)
       /\ datamean["s"][KOf(n)] = datamean["s"][KOf(n) - 1]

---------------------------------------------------------------------------
\* SpecCor: the Coriolis force, second and fourth order, on a periodic
\* 3 x 2 x 1 grid; u and v each an impulse of amplitude 1 or -2 at any one
\* cell, or 1 everywhere (the sum of C9 is bilinear in u and v)
CorGrids ==
  {MakeGrid(3, 2, 1, 2, order, <<R(1)>>, <<R(1), R(1)>>, R(0), R(0)) : order \in {"2", "4"}}

Impulses ==
  {[n \in InteriorCells |-> IF n = m THEN a ELSE R(0)] :
     m \in InteriorCells, a \in {R(1), R(-2)}}
  \cup {[n \in InteriorCells |-> R(1)]}

InitCor ==
  /\ InitObject
  /\ grid \in CorGrids
  /\ \E g \in {R(0), R(1)} :
       input = [items |-> Items("geo", Absent, Absent, Absent, Absent, R(2)),
                lists |-> EmptyMap,
                profs |-> [k \in {"ug", "vg"} |-> [l \in 1 .. grid.kmax |-> g]],
                timeprofs |-> EmptyMap]
  /\ time = R(0)
  /\ dt = R(1)
  /\ u \in {FieldOf(g) : g \in Impulses}
  /\ v \in {FieldOf(g) : g \in Impulses}
  /\ ut = ZeroField /\ vt = ZeroField
  /\ st = [name \in FieldsSp |-> ZeroField]
  /\ datamean = [name \in FieldsSp |-> ZeroProf]

SpecCor == InitCor /\ [][NextForce]_vars

\* the horizontal halo of a field holds the periodic images of the interior
Periodic(f) == f = boundary_cyclic(f)

\* the sum over the interior of u*dut + v*dvt, dut and dvt the increments of a step
Work(dut, dvt) ==
  LET cells == InteriorSeq
  IN  RSum([n \in DOMAIN cells |->
              RAdd(RMul(u[cells[n]], dut[cells[n]]), RMul(v[cells[n]], dvt[cells[n]]))])

\* C9: on a periodic grid with ug = vg = 0 and utrans = vtrans = 0, the
\* increments exec adds to ut and vt with swlspres = "geo", second or fourth
\* order, satisfy sum over the interior of u*dut + v*dvt = 0.
C9_SkewSymmetry ==
  [][(last' = "exec" /\ swlspres = "geo" /\ Periodic(u) /\ Periodic(v)
        /\ grid.utrans = R(0) /\ grid.vtrans = R(0)
        /\ \A k \in grid.kstart .. grid.kend - 1 : ug[k] = R(0) /\ vg[k] = R(0))
       => Work([n \in Cells |-> RSub(ut'[n], ut[n])],
               [n \in Cells |-> RSub(vt'[n], vt[n])]) = R(0)]_vars

\* after a fourth order exec with ug = vg = 0 in which both tendencies moved
C9_Witness ==
  /\ last = "exec" /\ swlspres = "geo" /\ grid.swspatialorder = "4"
  /\ Periodic(u) /\ Periodic(v)
  /\ \A k \in grid.kstart .. grid.kend - 1 : ug[k] = R(0) /\ vg[k] = R(0)
  /\ \E n, m \in InteriorCells : ut[n] # R(0) /\ vt[m] # R(0) /\ u[n] # R(0) /\ v[m] # R(0)

\* the same after a second order exec
C9_Witness2 ==
  /\ last = "exec" /\ swlspres = "geo" /\ grid.swspatialorder = "2"
  /\ Periodic(u) /\ Periodic(v)
  /\ \A k \in grid.kstart .. grid.kend - 1 : ug[k] = R(0) /\ vg[k] = R(0)
  /\ \E n, m \in InteriorCells : ut[n] # R(0) /\ vt[m] # R(0) /\ u[n] # R(0) /\ v[m] # R(0)

---------------------------------------------------------------------------
(* The second order pressure solver, cpres (src/src/pres.cxx).             *)
(* Its arithmetic runs in GF(PP).                                          *)

\* an array in memory: the values of f, computed once when the array is written
Array(f) == IF f = f THEN f ELSE f
\* b, computed after the statements that write a have run
After(a, b) == IF a = a THEN b ELSE b

\* a grid with the horizontal spacings and the inverse cell heights added
PresGrid(g, dx, dy) ==
  [dx |-> dx, dy |-> dy, dzi |-> [k \in DOMAIN g.dz |-> RDiv(F(1), g.dz[k])]] @@ g

\* cos(2*pi*i/n) for the angles where it is an integer
Cos2Pi(i, n) == IF i % n = 0 THEN 1 ELSE IF 2 * (i % n) = n THEN -1 ELSE 0

\* fftw_execute of a FFTW_R2HC or FFTW_HC2R plan of length 1 or 2 (the two
\* coincide there, unnormalised): x0 for length 1, (x0 + x1, x0 - x1) for 2
fftw_execute(x) ==
  IF DOMAIN x = {0} THEN x
  ELSE [i \in DOMAIN x |-> IF i = 0 THEN RAdd(x[0], x[1]) ELSE RSub(x[0], x[1])]

\* fields->p.boundary_bottop(1): zero gradient into the ghost levels
boundary_bottop(f) ==
  [n \in DOMAIN f |->
     IF KOf(n) < grid.kstart THEN f[n + (grid.kstart - KOf(n)) * grid.ijcells]
     ELSE IF KOf(n) >= grid.kend THEN f[n - (KOf(n) - grid.kend + 1) * grid.ijcells]
     ELSE f[n]]

\* the modified wave numbers and the off-diagonals set by pres_2nd_init
pres_2nd_init_bmat(tot, dxidxi) ==
  LET low == [i \in 0 .. tot \div 2 |-> RMul(RMul(F(2), F(Cos2Pi(i, tot) - 1 + PP)), dxidxi)]
  IN  [i \in 0 .. tot - 1 |-> IF i < (tot \div 2) + 1 THEN low[i] ELSE low[tot - i]]

pres_2nd_init(garbage) ==
  LET dxidxi == RDiv(F(1), RMul(grid.dx, grid.dx))
      dyidyi == RDiv(F(1), RMul(grid.dy, grid.dy))
      fresh  == [k \in 0 .. grid.ktot - 1 |-> garbage]
  IN  [bmati |-> pres_2nd_init_bmat(grid.itot, dxidxi),
       bmatj |-> pres_2nd_init_bmat(grid.jtot, dyidyi),
       a |-> [k \in 0 .. grid.ktot - 1 |->
                RMul(grid.dz[k + grid.kgc], grid.dzhi[k + grid.kgc])],
       c |-> [k \in 0 .. grid.ktot - 1 |->
                RMul(grid.dz[k + grid.kgc], grid.dzhi[k + grid.kgc + 1])],
       b |-> fresh, d |-> fresh, xin |-> fresh, xout |-> fresh]

\* cpres::pres_2nd_in: the new p
pres_2nd_in(pA, uA, vA, wA, utA, vtA, wtA, dzi, dtA) ==
  LET ii == 1
      jj == grid.icells
      kk == grid.icells * grid.jcells
      dxi == RDiv(F(1), grid.dx)
      dyi == RDiv(F(1), grid.dy)
      star(at, a, n) == RAdd(at[n], RDiv(a[n], dtA))
  IN  After(<<utA, vtA, wtA>>, Array(
        [n \in DOMAIN pA |->
           IF Interior(n)
           THEN RAdd(RAdd(RMul(RSub(star(utA, uA, n + ii), star(utA, uA, n)), dxi),
                          RMul(RSub(star(vtA, vA, n + jj), star(vtA, vA, n)), dyi)),
                     RMul(RSub(star(wtA, wA, n + kk), star(wtA, wA, n)), dzi[KOf(n)]))
           ELSE pA[n]]))

\* the forward loop with gam taken from the diagonal instead of the pivot
RECURSIVE tdma_forward_gam_b(_, _, _, _, _, _, _)
tdma_forward_gam_b(k, a, b, c, xin, size, acc) ==
  After(acc,
    IF k >= size THEN acc
    ELSE LET g == RDiv(c[k - 1], b[k - 1])
             t == RSub(b[k], RMul(a[k], g))
             x == RDiv(RSub(xin[k], RMul(a[k], acc.xout[k - 1])), t)
         IN  tdma_forward_gam_b(k + 1, a, b, c, xin, size,
                                [tmp |-> t, xout |-> [acc.xout EXCEPT ![k] = x],
                                 gam |-> [acc.gam EXCEPT ![k] = g]]))

\* the forward loop of tdma from row k: acc = [tmp, xout, gam]
RECURSIVE tdma_forward(_, _, _, _, _, _, _)
tdma_forward(k, a, b, c, xin, size, acc) ==
  After(acc,
    IF k >= size THEN acc
    ELSE LET g == RDiv(c[k - 1], acc.tmp)
             t == RSub(b[k], RMul(a[k], g))
             x == RDiv(RSub(xin[k], RMul(a[k], acc.xout[k - 1])), t)
         IN  tdma_forward(k + 1, a, b, c, xin, size,
                          [tmp |-> t, xout |-> [acc.xout EXCEPT ![k] = x],
                           gam |-> [acc.gam EXCEPT ![k] = g]]))

\* the backward loop reading gam[k] where tdma reads gam[k + 1]
RECURSIVE tdma_backward_gam_k(_, _)
tdma_backward_gam_k(k, acc) ==
  After(acc,
    IF k < 0 THEN acc
    ELSE tdma_backward_gam_k(k - 1,
           [acc EXCEPT !.xout[k] = RSub(@, RMul(acc.gam[k], acc.xout[k + 1]))]))

\* the backward loop of tdma from row k down to 0
RECURSIVE tdma_backward(_, _)
tdma_backward(k, acc) ==
  After(acc,
    IF k < 0 THEN acc
    ELSE tdma_backward(k - 1,
           [acc EXCEPT !.xout[k] = RSub(@, RMul(acc.gam[k + 1], acc.xout[k + 1]))]))

\* tdma without its backward loop
tdma_forward_only(a, b, c, xin, xout, gam, size) ==
  tdma_forward(1, a, b, c, xin, size,
               [tmp |-> b[0], xout |-> [xout EXCEPT ![0] = RDiv(xin[0], b[0])],
                gam |-> gam])

\* tdma that leaves xout[0] as the caller handed it over
tdma_stale_first(a, b, c, xin, xout, gam, size) ==
  tdma_backward(size - 2,
    tdma_forward(1, a, b, c, xin, size, [tmp |-> b[0], xout |-> xout, gam |-> gam]))

\* cpres::tdma: the new xout and gam (and the local tmp)
tdma(a, b, c, xin, xout, gam, size) ==
  tdma_backward(size - 2,
    tdma_forward(1, a, b, c, xin, size,
                 [tmp |-> b[0], xout |-> [xout EXCEPT ![0] = RDiv(xin[0], b[0])],
                  gam |-> gam]))

\* one transform along x of every interior row of p, forward or backward
pres_2nd_fft_i(pA, backward) ==
  After(pA, Array(
    [n \in DOMAIN pA |->
       IF Interior(n)
       THEN LET row == [i \in 0 .. grid.itot - 1 |->
                          pA[i + grid.igc + JOf(n) * grid.icells + KOf(n) * grid.ijcells]]
                out == fftw_execute(row)[IOf(n) - grid.igc]
            IN  IF backward THEN RDiv(out, F(grid.itot)) ELSE out
       ELSE pA[n]]))

\* one transform along y of every interior row of p, forward or backward
pres_2nd_fft_j(pA, backward) ==
  After(pA, Array(
    [n \in DOMAIN pA |->
       IF Interior(n)
       THEN LET row == [j \in 0 .. grid.jtot - 1 |->
                          pA[IOf(n) + (j + grid.jgc) * grid.icells + KOf(n) * grid.ijcells]]
                out == fftw_execute(row)[JOf(n) - grid.jgc]
            IN  IF backward THEN RDiv(out, F(grid.jtot)) ELSE out
       ELSE pA[n]]))

\* the same with the top row of every column pinned like that of column (0,0)
pres_2nd_solve_fill_all_pinned(col, dz, acc) ==
  LET i == col % grid.imax
      j == col \div grid.imax
      kgc == grid.kgc
      ktot == grid.ktot
      ijk(k) == i + grid.igc + (j + grid.jgc) * grid.icells + (k + kgc) * grid.ijcells
      b0 == [k \in 0 .. ktot - 1 |->
               RSub(RMul(RMul(dz[k + kgc], dz[k + kgc]),
                         RAdd(pres.bmati[i], pres.bmatj[j])),
                    RAdd(pres.a[k], pres.c[k]))]
      b1 == [b0 EXCEPT ![0] = RAdd(@, pres.a[0])]
  IN  After(acc,
        [acc EXCEPT
           !.b = Array([b1 EXCEPT ![ktot - 1] = RSub(@, pres.c[ktot - 1])]),
           !.xin = Array([k \in 0 .. ktot - 1 |->
                            RMul(RMul(dz[k + kgc], dz[k + kgc]), acc.p[ijk(k)])])])

\* pres_2nd_solve, column col: the diagonal b and the right-hand side xin;
\* acc = [p, b, xin, xout, d] carries p and the shared arrays
pres_2nd_solve_fill(col, dz, acc) ==
  LET i == col % grid.imax
      j == col \div grid.imax
      kgc == grid.kgc
      ktot == grid.ktot
      ijk(k) == i + grid.igc + (j + grid.jgc) * grid.icells + (k + kgc) * grid.ijcells
      b0 == [k \in 0 .. ktot - 1 |->
               RSub(RMul(RMul(dz[k + kgc], dz[k + kgc]),
                         RAdd(pres.bmati[i], pres.bmatj[j])),
                    RAdd(pres.a[k], pres.c[k]))]
      b1 == [b0 EXCEPT ![0] = RAdd(@, pres.a[0])]
  IN  After(acc,
        [acc EXCEPT
           !.b = Array([b1 EXCEPT ![ktot - 1] =
                          IF i = 0 /\ j = 0 THEN RSub(@, pres.c[ktot - 1])
                          ELSE RAdd(@, pres.c[ktot - 1])]),
           !.xin = Array([k \in 0 .. ktot - 1 |->
                            RMul(RMul(dz[k + kgc], dz[k + kgc]), acc.p[ijk(k)])])])

\* pres_2nd_solve, column col: the call of tdma
pres_2nd_solve_tdma(acc) ==
  After(acc,
    [acc EXCEPT !.xout = tdma(pres.a, acc.b, pres.c, acc.xin, @, acc.d, grid.ktot).xout,
                !.d = tdma(pres.a, acc.b, pres.c, acc.xin, acc.xout, @, grid.ktot).gam])

\* pres_2nd_solve, column col: xout put back into p
pres_2nd_solve_put(col, acc) ==
  After(acc,
    [acc EXCEPT !.p = Array(
       [n \in DOMAIN @ |->
          IF /\ IOf(n) = (col % grid.imax) + grid.igc
             /\ JOf(n) = (col \div grid.imax) + grid.jgc
             /\ KOf(n) >= grid.kgc /\ KOf(n) < grid.kgc + grid.ktot
          THEN acc.xout[KOf(n) - grid.kgc] ELSE @[n]])])

\* the loop of pres_2nd_solve over the columns, from column col on, in the
\* order j, i
RECURSIVE pres_2nd_solve_columns(_, _, _)
pres_2nd_solve_columns(col, dz, acc) ==
  After(acc,
    IF col >= grid.imax * grid.jmax THEN acc
    ELSE pres_2nd_solve_columns(col + 1, dz,
           pres_2nd_solve_put(col, pres_2nd_solve_tdma(pres_2nd_solve_fill(col, dz, acc)))))

\* cpres::pres_2nd_solve on the scratch arrays S = [b, xin, xout, d]: the new
\* p and the shared arrays as the last column left them
pres_2nd_solve(pA, dz, S) ==
  [pres_2nd_solve_columns(0, dz,
     [p |-> pres_2nd_fft_j(pres_2nd_fft_i(pA, FALSE), FALSE),
      b |-> S.b, xin |-> S.xin, xout |-> S.xout, d |-> S.d])
   EXCEPT !.p = pres_2nd_fft_i(pres_2nd_fft_j(@, TRUE), TRUE)]

\* cpres::pres_2nd_out: the new ut, vt and wt
pres_2nd_out(utA, vtA, wtA, pA, dzhi) ==
  LET ii == 1
      jj == grid.icells
      kk == grid.icells * grid.jcells
      dxi == RDiv(F(1), grid.dx)
      dyi == RDiv(F(1), grid.dy)
  IN  After(pA,
        [ut |-> Array([n \in DOMAIN utA |->
                         IF Interior(n)
                         THEN RSub(utA[n], RMul(RSub(pA[n], pA[n - ii]), dxi))
                         ELSE utA[n]]),
         vt |-> Array([n \in DOMAIN vtA |->
                         IF Interior(n)
                         THEN RSub(vtA[n], RMul(RSub(pA[n], pA[n - jj]), dyi))
                         ELSE vtA[n]]),
         wt |-> Array([n \in DOMAIN wtA |->
                         IF Interior(n)
                         THEN RSub(wtA[n], RMul(RSub(pA[n], pA[n - kk]), dzhi[KOf(n)]))
                         ELSE wtA[n]])])

\* the loop of calcdivergence from the m-th interior cell on; acc is divmax
RECURSIVE calcdivergence_loop(_, _, _, _, _, _)
calcdivergence_loop(m, uA, vA, wA, dzi, acc) ==
  After(acc,
    IF m > Len(InteriorSeq) THEN acc
    ELSE LET n == InteriorSeq[m]
         IN  calcdivergence_loop(m + 1, uA, vA, wA, dzi,
               RMax(acc,
                    RAbs(RAdd(RAdd(RMul(RSub(uA[n + 1], uA[n]), RDiv(F(1), grid.dx)),
                                   RMul(RSub(vA[n + grid.icells], vA[n]),
                                        RDiv(F(1), grid.dy))),
                              RMul(RSub(wA[n + grid.ijcells], wA[n]), dzi[KOf(n)]))))))

\* cpres::calcdivergence
calcdivergence(uA, vA, wA, dzi) == calcdivergence_loop(1, uA, vA, wA, dzi, F(0))

\* what a freshly allocated array may hold
Garbage == {F(0), F(5)}

\* cpres::init, called before the time loop starts
cpres_init ==
  /\ pres = Null
  /\ ncalls = 0
  /\ grid.swspatialorder = "2"
  /\ \E g \in Garbage : pres' = pres_2nd_init(g)
  /\ last' = "pres_init"
  /\ UNCHANGED <<envVars, fieldVars, forceVars, ncalls, pres4, divmax, lin>>

\* cpres::exec
cpres_exec ==
  /\ pres # Null
  /\ ncalls < MaxPresCalls
  /\ \E ut1 \in {boundary_cyclic(ut)}, vt1 \in {boundary_cyclic(vt)},
        wt1 \in {boundary_cyclic(wt)} :
       \E sol \in {pres_2nd_solve(pres_2nd_in(p, u, v, w, ut1, vt1, wt1, grid.dzi, dt),
                                  grid.dz, pres)} :
         \E p2 \in {boundary_bottop(boundary_cyclic(sol.p))} :
           \E out \in {pres_2nd_out(ut1, vt1, wt1, p2, grid.dzhi)} :
             /\ p' = p2
             /\ ut' = out.ut /\ vt' = out.vt /\ wt' = out.wt
             /\ pres' = [pres EXCEPT !.b = sol.b, !.xin = sol.xin, !.xout = sol.xout,
                                     !.d = sol.d]
  /\ ncalls' = ncalls + 1
  /\ last' = "pres_exec"
  /\ UNCHANGED <<envVars, u, v, w, st, datamean, forceVars, pres4, divmax, lin>>

\* cpres::divergence
cpres_divergence ==
  /\ grid.swspatialorder = "2"
  /\ ncalls < MaxPresCalls
  /\ divmax' = calcdivergence(u, v, w, grid.dzi)
  /\ ncalls' = ncalls + 1
  /\ last' = "divergence"
  /\ UNCHANGED <<envVars, fieldVars, forceVars, pres, pres4, lin>>

NextPres ==
  \/ cpres_init
  \/ cpres_exec
  \/ timeloop_exec
  \/ cpres_divergence

---------------------------------------------------------------------------
\* SpecPres: the second order solver on a periodic 2 x 1 x 2 grid (the modes
\* (0,0) and (1,0)), uniform and non-uniform levels; u, ut and the inner
\* faces of w and wt are fixed non-uniform patterns (the solver is linear in
\* them; those of w and wt sum to zero over a level), w and wt on the wall
\* faces are zero or not, balanced or not

\* the Force object as created from an ini file without a [force] block
ForceOff ==
  /\ fstate = "created"
  /\ swlspres = "0" /\ swls = "0" /\ swwls = "0" /\ swtimedep = "0"
  /\ lslist = <<>> /\ timedeplist = <<>>
  /\ uflux = Uninit /\ fc = Uninit
  /\ ug = Null /\ vg = Null /\ wls = Null
  /\ lsprofs = EmptyMap /\ timedepdata = EmptyMap /\ timedeptime = <<>>
  /\ heap = NoBlocks
  /\ calcMeanProfs = FALSE
  /\ input = [items |-> EmptyMap, lists |-> EmptyMap, profs |-> EmptyMap,
              timeprofs |-> EmptyMap]

PresGrids ==
  {PresGrid(MakeGrid(2, 1, 2, 1, "2", <<F(1), F(1)>>, <<F(1), F(1), F(1)>>, F(0), F(0)),
            F(2), F(1)),
   PresGrid(MakeGrid(2, 1, 2, 1, "2", <<F(1), F(2)>>,
                     <<F(1), RDiv(F(2), F(3)), RDiv(F(1), F(2))>>, F(0), F(0)),
            F(2), F(1))}

\* a field from its values g(i, j, k) on the interior columns (i and j from
\* 0) and the levels kstart .. kend; zero on the other levels; the horizontal
\* halo periodic, or zero where a halo exchange is still to come
FieldFrom(g(_, _, _), periodic) ==
  [n \in Cells |->
     IF KOf(n) < grid.kstart \/ KOf(n) > grid.kend THEN F(0)
     ELSE IF Interior(Image(n) - (IF KOf(n) = grid.kend THEN grid.ijcells ELSE 0))
             /\ (periodic \/ Image(n) = n)
     THEN g(IOf(Image(n)) - grid.igc, JOf(Image(n)) - grid.jgc, KOf(n))
     ELSE F(0)]

InitPres ==
  /\ ForceOff
  /\ grid \in PresGrids
  /\ pres = Null /\ pres4 = Null /\ divmax = Null /\ lin = Null
  /\ ncalls = 0 /\ last = "start"
  /\ time = F(0)
  /\ dt \in {F(1), RDiv(F(1), F(2))}
  /\ st = [name \in FieldsSp |-> [n \in Cells |-> F(0)]]
  /\ datamean = [name \in FieldsSp |-> [k \in 0 .. grid.kcells - 1 |-> F(0)]]
  /\ p = [n \in Cells |-> F(0)]
  /\ u = LET g(i, j, k) == IF k < grid.kend THEN F(1 + i + 2 * k) ELSE F(0)
         IN  FieldFrom(g, TRUE)
  /\ v = LET g(i, j, k) == IF k < grid.kend THEN F(k) ELSE F(0)
         IN  FieldFrom(g, TRUE)
  /\ ut = LET g(i, j, k) == IF i = 0 /\ k = grid.kstart THEN F(1) ELSE F(0)
          IN  FieldFrom(g, FALSE)
  /\ vt = [n \in Cells |-> F(0)]
  /\ \E bottom \in {0, 1}, top \in {<<0, 0>>, <<1, 1>>, <<1, 0>>} :
       w = LET g(i, j, k) == IF k = grid.kstart THEN F(bottom)
                             ELSE IF k = grid.kend THEN F(top[i + 1])
                             ELSE F(1 - 2 * i)
           IN  FieldFrom(g, TRUE)
  /\ \E top \in {0, 1} :
       wt = LET g(i, j, k) == IF k = grid.kstart THEN F(0)
                              ELSE IF k = grid.kend THEN F(top)
                              ELSE F(3 - 6 * i)
            IN  FieldFrom(g, FALSE)

SpecPres == InitPres /\ [][NextPres]_vars

\* the sum over the columns of wt + w/dt on the faces of level k
RECURSIVE WallFluxTo(_, _)
WallFluxTo(k, m) ==
  IF m = 0 THEN F(0)
  ELSE LET n == grid.istart + ((m - 1) % grid.imax)
                + (grid.jstart + ((m - 1) \div grid.imax)) * grid.icells
                + k * grid.ijcells
       IN  RAdd(WallFluxTo(k, m - 1), RAdd(wt[n], RDiv(w[n], dt)))
WallFlux(k) == WallFluxTo(k, grid.imax * grid.jmax)

\* C1 as stated: for any provisional fields, w and wt on the wall faces zero
\* or not, the Euler update that follows cpres::exec leaves calcdivergence = 0.
C1_AnyFields ==
  [][(last = "pres_exec" /\ last' = "timeloop" /\ grid.swspatialorder = "2")
       => calcdivergence(u', v', w', grid.dzi) = F(0)]_vars

\* C1 amended: the same for provisional fields whose wt + w/dt has the same
\* horizontal sum on the bottom and on the top wall faces (zero on both walls
\* in particular).
C1_Projection ==
  [][(last = "pres_exec" /\ last' = "timeloop" /\ grid.swspatialorder = "2"
        /\ WallFlux(grid.kstart) = WallFlux(grid.kend))
       => calcdivergence(u', v', w', grid.dzi) = F(0)]_vars

\* after exec and the Euler update: the pressure is non-zero in both modes,
\* w is non-zero on the walls, the levels are non-uniform, and no divergence
\* is left
C1_Witness ==
  /\ last = "timeloop" /\ ncalls = 2 /\ pres # Null /\ grid.swspatialorder = "2"
  /\ grid.dz[grid.kstart + 1] = F(2)
  /\ \E n, m \in InteriorCells : KOf(n) = KOf(m) /\ p[n] # p[m] /\ RAdd(p[n], p[m]) # F(0)
  /\ \E n \in Cells : KOf(n) = grid.kend /\ w[n] # F(0)
  /\ calcdivergence(u, v, w, grid.dzi) = F(0)

---------------------------------------------------------------------------
(* The fourth order pressure solver, Pres_4 (src/src/pres_4.cxx).          *)
(* Its arithmetic runs in GF(PP).                                          *)

\* a grid with the horizontal spacings, the fourth order vertical metrics
\* (one value per level, ghost levels included) and the transposed blocks
PresGrid4(g, dx, dy, dzi4, dzhi4) ==
  [dx |-> dx, dy |-> dy,
   dzi4 |-> [k \in 0 .. g.kcells - 1 |-> dzi4[k + 1]],
   dzhi4 |-> [k \in 0 .. g.kcells - 1 |-> dzhi4[k + 1]],
   iblock |-> g.itot, jblock |-> g.jtot] @@ g

\* the coefficients of the fourth order gradient, Finite_difference::O4
cg0 == F(1)
cg1 == F(-27)
cg2 == F(27)
cg3 == F(-1)
cgi == RDiv(F(1), F(24))

\* cg0*a + cg1*b + cg2*c + cg3*d
grad4(a, b, c, d) ==
  RAdd(RAdd(RMul(cg0, a), RMul(cg1, b)), RAdd(RMul(cg2, c), RMul(cg3, d)))

\* no exchange at all
boundary_cyclic_edge_none(f, edge) == f

\* grid->boundary_cyclic(data, edge) for one edge pair: the halo columns
\* (East_west_edge) or the halo rows (North_south_edge) take the periodic image
boundary_cyclic_edge(f, edge) ==
  [n \in DOMAIN f |->
     IF edge = "East_west_edge"
     THEN f[Wrap(IOf(n), grid.istart, grid.itot) + JOf(n) * grid.icells
            + KOf(n) * grid.ijcells]
     ELSE f[IOf(n) + Wrap(JOf(n), grid.jstart, grid.jtot) * grid.icells
            + KOf(n) * grid.ijcells]]

\* the part of an array that holds a field without ghost cells
Compact == 0 .. grid.imax * grid.jmax * grid.kmax - 1
\* the rows of one slice: iblock columns by kmax + 4 rows
Slice == 0 .. grid.iblock * (grid.kmax + 4) - 1

\* Pres_4::init: the arrays as allocated; g is what fresh memory holds
Pres_4_init_arrays(g) ==
  LET col == [k \in 0 .. grid.kmax - 1 |-> g]
      sl  == [ik \in Slice |-> g]
  IN  [bmati |-> [i \in 0 .. grid.itot - 1 |-> g],
       bmatj |-> [j \in 0 .. grid.jtot - 1 |-> g],
       m1 |-> col, m2 |-> col, m3 |-> col, m4 |-> col, m5 |-> col, m6 |-> col,
       m7 |-> col,
       work3d |-> [x \in Compact |-> g],
       tmp |-> [m1 |-> sl, m2 |-> sl, m3 |-> sl, m4 |-> sl, m5 |-> sl, m6 |-> sl,
                m7 |-> sl, p |-> sl],
       pc |-> "init"]

\* the modified wave numbers of the fourth order scheme
set_values_bmat(tot, didi) ==
  LET c(x) == RDiv(F(x), F(576))
      low == [j \in 0 .. tot \div 2 |->
                RMul(RSum(<<RMul(RMul(F(2), c(1)), F(Cos2Pi(3 * j, tot))),
                            RNeg(RMul(RMul(F(2), c(54)), F(Cos2Pi(2 * j, tot)))),
                            RMul(RMul(F(2), c(783)), F(Cos2Pi(j, tot))),
                            RNeg(c(1460))>>),
                     didi)]
  IN  [j \in 0 .. tot - 1 |-> IF j < (tot \div 2) + 1 THEN low[j] ELSE low[tot - j]]

\* the bottom row without the terms of the mirrored w
set_values_bottom_unmirrored(kc) ==
  LET h(d) == grid.dzhi4[kc + d]
      t(c, x) == RMul(F(c), x)
      row(s) == RMul(RSum(s), grid.dzi4[kc])
  IN  [m1 |-> F(0),
       m2 |-> row(<<t(-27, h(0))>>),
       m3 |-> row(<<t(729, h(0)), t(27, h(1))>>),
       m4 |-> row(<<t(-729, h(0)), t(-729, h(1)), t(-1, h(2))>>),
       m5 |-> row(<<t(27, h(0)), t(729, h(1)), t(27, h(2))>>),
       m6 |-> row(<<t(-27, h(1)), t(-27, h(2))>>),
       m7 |-> row(<<t(1, h(2))>>)]

\* the row of the vertical operator at the bottom level kc
set_values_bottom(kc) ==
  LET h(d) == grid.dzhi4[kc + d]
      t(c, x) == RMul(F(c), x)
      row(s) == RMul(RSum(s), grid.dzi4[kc])
  IN  [m1 |-> F(0),
       m2 |-> row(<<t(-27, h(0))>>),
       m3 |-> row(<<t(-1, h(1)), t(729, h(0)), t(27, h(1))>>),
       m4 |-> row(<<t(27, h(1)), t(-729, h(0)), t(-729, h(1)), t(-1, h(2))>>),
       m5 |-> row(<<t(-27, h(1)), t(27, h(0)), t(729, h(1)), t(27, h(2))>>),
       m6 |-> row(<<t(1, h(1)), t(-27, h(1)), t(-27, h(2))>>),
       m7 |-> row(<<t(1, h(2))>>)]

\* the row at an interior level kc
set_values_interior(kc) ==
  LET h(d) == grid.dzhi4[kc + d]
      t(c, x) == RMul(F(c), x)
      row(s) == RMul(RSum(s), grid.dzi4[kc])
  IN  [m1 |-> row(<<t(1, h(-1))>>),
       m2 |-> row(<<t(-27, h(-1)), t(-27, h(0))>>),
       m3 |-> row(<<t(27, h(-1)), t(729, h(0)), t(27, h(1))>>),
       m4 |-> row(<<t(-1, h(-1)), t(-729, h(0)), t(-729, h(1)), t(-1, h(2))>>),
       m5 |-> row(<<t(27, h(0)), t(729, h(1)), t(27, h(2))>>),
       m6 |-> row(<<t(-27, h(1)), t(-27, h(2))>>),
       m7 |-> row(<<t(1, h(2))>>)]

\* the top row without the terms of the mirrored w
set_values_top_unmirrored(kc) ==
  LET h(d) == grid.dzhi4[kc + d]
      t(c, x) == RMul(F(c), x)
      row(s) == RMul(RSum(s), grid.dzi4[kc])
  IN  [m1 |-> row(<<t(1, h(-1))>>),
       m2 |-> row(<<t(-27, h(-1)), t(-27, h(0))>>),
       m3 |-> row(<<t(27, h(-1)), t(729, h(0)), t(27, h(1))>>),
       m4 |-> row(<<t(-1, h(-1)), t(-729, h(0)), t(-729, h(1))>>),
       m5 |-> row(<<t(27, h(0)), t(729, h(1))>>),
       m6 |-> row(<<t(-27, h(1))>>),
       m7 |-> F(0)]

\* the row at the top level kc
set_values_top(kc) ==
  LET h(d) == grid.dzhi4[kc + d]
      t(c, x) == RMul(F(c), x)
      row(s) == RMul(RSum(s), grid.dzi4[kc])
  IN  [m1 |-> row(<<t(1, h(-1))>>),
       m2 |-> row(<<t(-27, h(-1)), t(-27, h(0)), t(1, h(0))>>),
       m3 |-> row(<<t(27, h(-1)), t(729, h(0)), t(27, h(1)), t(-27, h(0))>>),
       m4 |-> row(<<t(-1, h(-1)), t(-729, h(0)), t(-729, h(1)), t(27, h(0))>>),
       m5 |-> row(<<t(27, h(0)), t(729, h(1)), t(-1, h(0))>>),
       m6 |-> row(<<t(-27, h(1))>>),
       m7 |-> F(0)]

\* Pres_4::set_values, the loop over the levels: m1 .. m7 from the rows
set_values_m(old, rows) ==
  LET kmax == grid.kmax
  IN  [old EXCEPT !.m1 = [k \in 0 .. kmax - 1 |-> rows[k].m1],
                  !.m2 = [k \in 0 .. kmax - 1 |-> rows[k].m2],
                  !.m3 = [k \in 0 .. kmax - 1 |-> rows[k].m3],
                  !.m4 = [k \in 0 .. kmax - 1 |-> rows[k].m4],
                  !.m5 = [k \in 0 .. kmax - 1 |-> rows[k].m5],
                  !.m6 = [k \in 0 .. kmax - 1 |-> rows[k].m6],
                  !.m7 = [k \in 0 .. kmax - 1 |-> rows[k].m7]]

\* Pres_4::set_values: the new bmati, bmatj and m1 .. m7
set_values(old) ==
  set_values_m(
    [old EXCEPT !.bmati = set_values_bmat(grid.itot, RDiv(F(1), RMul(grid.dx, grid.dx))),
                !.bmatj = set_values_bmat(grid.jtot, RDiv(F(1), RMul(grid.dy, grid.dy))),
                !.pc = "set"],
    Array([k \in 0 .. grid.kmax - 1 |->
             IF k = grid.kmax - 1 THEN set_values_top(grid.kstart + k)
             ELSE IF k = 0 THEN set_values_bottom(grid.kstart + k)
             ELSE set_values_interior(grid.kstart + k)]))

\* Pres_4::input<dim3>: the new p, ut, vt and wt
Pres_4_input(pA, uA, vA, wA, utA, vtA, wtA, dzi4, dtA) ==
  LET ii1 == 1
      ii2 == 2
      jj1 == grid.icells
      jj2 == 2 * grid.icells
      kk1 == grid.ijcells
      kk2 == 2 * grid.ijcells
      jjp == grid.imax
      kkp == grid.imax * grid.jmax
      dim3 == grid.jtot # 1
      dti == RDiv(F(1), dtA)
      cx == RMul(cgi, RDiv(F(1), grid.dx))
      cy == RMul(cgi, RDiv(F(1), grid.dy))
      ut1 == boundary_cyclic_edge(utA, "East_west_edge")
      vt1 == IF dim3 THEN boundary_cyclic_edge(vtA, "North_south_edge") ELSE vtA
      column(n) == /\ IOf(n) >= grid.igc /\ IOf(n) < grid.igc + grid.imax
                   /\ JOf(n) >= grid.jgc /\ JOf(n) < grid.jgc + grid.jmax
      wt1 == [n \in DOMAIN wtA |->
                IF column(n) /\ KOf(n) = grid.kgc - 1 THEN RNeg(wtA[n + kk2])
                ELSE IF column(n) /\ KOf(n) = grid.kmax + grid.kgc + 1
                THEN RNeg(wtA[n - kk2])
                ELSE wtA[n]]
      s(at, a, n) == RAdd(at[n], RMul(a[n], dti))
      rhs(ijkp) ==
        LET i == ijkp % jjp
            j == (ijkp \div jjp) % grid.jmax
            k == ijkp \div kkp
            ijk == i + grid.igc + (j + grid.jgc) * jj1 + (k + grid.kgc) * kk1
            px == RMul(grad4(s(ut1, uA, ijk - ii1), s(ut1, uA, ijk),
                             s(ut1, uA, ijk + ii1), s(ut1, uA, ijk + ii2)),
                       cx)
            py == RMul(grad4(s(vt1, vA, ijk - jj1), s(vt1, vA, ijk),
                             s(vt1, vA, ijk + jj1), s(vt1, vA, ijk + jj2)),
                       cy)
            pz == RMul(grad4(s(wt1, wA, ijk - kk1), s(wt1, wA, ijk),
                             s(wt1, wA, ijk + kk1), s(wt1, wA, ijk + kk2)),
                       dzi4[k + grid.kgc])
        IN  IF dim3 THEN RAdd(RAdd(px, py), pz) ELSE RAdd(px, pz)
  IN  After(<<ut1, vt1, wt1>>, After(<<dti, cx, cy>>,
        [p |-> Array([n \in DOMAIN pA |-> IF n \in Compact THEN rhs(n) ELSE pA[n]]),
         ut |-> ut1, vt |-> vt1, wt |-> wt1]))

\* grid->fft_forward and grid->fft_backward on the compact part of p: the
\* transform of every row along x and along y; backward is the inverse
fft_rows(pA, stride, tot, backward) ==
  After(pA, Array(
    [n \in DOMAIN pA |->
       IF n \in Compact
       THEN LET pos == (n \div stride) % tot
                row == [q \in 0 .. tot - 1 |-> pA[n + (q - pos) * stride]]
                out == fftw_execute(row)[pos]
            IN  IF backward THEN RDiv(out, F(tot)) ELSE out
       ELSE pA[n]]))
fft_forward(pA) == fft_rows(fft_rows(pA, 1, grid.itot, FALSE), grid.imax, grid.jtot, FALSE)
fft_backward(pA) == fft_rows(fft_rows(pA, grid.imax, grid.jtot, TRUE), 1, grid.itot, TRUE)

\* the rows Pres_4::solve writes into the slices before hdma, for row n of
\* the transposed layout (jslice = 1): T = [m1 .. m7, p] are m1temp .. ptemp;
\* here the two ghost rows of ptemp at the bottom are left as they are
solve_fill_keep_ptemp(n, pA, T) ==
  LET kmax == grid.kmax
      iblock == grid.iblock
      r(ik) == ik \div iblock
      inner(ik) == r(ik) >= 2 /\ r(ik) < kmax + 2
      mode00(ik) == ik % iblock = 0 /\ n = 0
  IN  After(<<pA, T>>,
       [m1 |-> Array([ik \in DOMAIN T.m1 |->
                 IF inner(ik) THEN pres4.m1[r(ik) - 2]
                 ELSE IF r(ik) = kmax + 3 THEN (IF mode00(ik) THEN F(-2) ELSE F(-1))
                 ELSE F(0)]),
        m2 |-> Array([ik \in DOMAIN T.m2 |->
                 IF inner(ik) THEN pres4.m2[r(ik) - 2]
                 ELSE IF r(ik) = kmax + 2 /\ mode00(ik) THEN RDiv(F(-1), F(3))
                 ELSE IF r(ik) = kmax + 3 /\ mode00(ik) THEN F(9)
                 ELSE F(0)]),
        m3 |-> Array([ik \in DOMAIN T.m3 |->
                 IF inner(ik) THEN pres4.m3[r(ik) - 2]
                 ELSE IF r(ik) = kmax + 2 THEN (IF mode00(ik) THEN F(2) ELSE F(-1))
                 ELSE F(0)]),
        m4 |-> Array([ik \in DOMAIN T.m4 |->
                 IF inner(ik)
                 THEN RAdd(RAdd(pres4.m4[r(ik) - 2], pres4.bmati[ik % iblock]),
                           pres4.bmatj[n])
                 ELSE F(1)]),
        m5 |-> Array([ik \in DOMAIN T.m5 |->
                 IF inner(ik) THEN pres4.m5[r(ik) - 2]
                 ELSE IF r(ik) = 1 THEN F(-1)
                 ELSE F(0)]),
        m6 |-> Array([ik \in DOMAIN T.m6 |->
                 IF inner(ik) THEN pres4.m6[r(ik) - 2] ELSE F(0)]),
        m7 |-> Array([ik \in DOMAIN T.m7 |->
                 IF inner(ik) THEN pres4.m7[r(ik) - 2]
                 ELSE IF r(ik) = 0 THEN F(-1)
                 ELSE F(0)]),
        p |-> Array([ik \in DOMAIN T.p |->
                 IF inner(ik)
                 THEN pA[(ik % iblock) + n * iblock + (r(ik) - 2) * iblock * grid.jblock]
                 ELSE IF r(ik) < 2 THEN T.p[ik]
                 ELSE F(0)])])

solve_fill(n, pA, T) ==
  LET kmax == grid.kmax
      iblock == grid.iblock
      r(ik) == ik \div iblock
      inner(ik) == r(ik) >= 2 /\ r(ik) < kmax + 2
      mode00(ik) == ik % iblock = 0 /\ n = 0
  IN  After(<<pA, T>>,
       [m1 |-> Array([ik \in DOMAIN T.m1 |->
                 IF inner(ik) THEN pres4.m1[r(ik) - 2]
                 ELSE IF r(ik) = kmax + 3 THEN (IF mode00(ik) THEN F(-2) ELSE F(-1))
                 ELSE F(0)]),
        m2 |-> Array([ik \in DOMAIN T.m2 |->
                 IF inner(ik) THEN pres4.m2[r(ik) - 2]
                 ELSE IF r(ik) = kmax + 2 /\ mode00(ik) THEN RDiv(F(-1), F(3))
                 ELSE IF r(ik) = kmax + 3 /\ mode00(ik) THEN F(9)
                 ELSE F(0)]),
        m3 |-> Array([ik \in DOMAIN T.m3 |->
                 IF inner(ik) THEN pres4.m3[r(ik) - 2]
                 ELSE IF r(ik) = kmax + 2 THEN (IF mode00(ik) THEN F(2) ELSE F(-1))
                 ELSE F(0)]),
        m4 |-> Array([ik \in DOMAIN T.m4 |->
                 IF inner(ik)
                 THEN RAdd(RAdd(pres4.m4[r(ik) - 2], pres4.bmati[ik % iblock]),
                           pres4.bmatj[n])
                 ELSE F(1)]),
        m5 |-> Array([ik \in DOMAIN T.m5 |->
                 IF inner(ik) THEN pres4.m5[r(ik) - 2]
                 ELSE IF r(ik) = 1 THEN F(-1)
                 ELSE F(0)]),
        m6 |-> Array([ik \in DOMAIN T.m6 |->
                 IF inner(ik) THEN pres4.m6[r(ik) - 2] ELSE F(0)]),
        m7 |-> Array([ik \in DOMAIN T.m7 |->
                 IF inner(ik) THEN pres4.m7[r(ik) - 2]
                 ELSE IF r(ik) = 0 THEN F(-1)
                 ELSE F(0)]),
        p |-> Array([ik \in DOMAIN T.p |->
                 IF inner(ik)
                 THEN pA[(ik % iblock) + n * iblock + (r(ik) - 2) * iblock * grid.jblock]
                 ELSE F(0)])])

\* the LU factorisation of hdma at row k of every column of the slice, one
\* statement after the other: the new m1
hdma_lu_m1(k, T) ==
  LET kk3 == 3 * grid.iblock
  IN  After(T, [T EXCEPT !.m1 = Array(
        [ik \in DOMAIN @ |->
           IF ik \div grid.iblock # k THEN @[ik]
           ELSE IF k < 3 THEN F(1)
           ELSE RDiv(@[ik], T.m4[ik - kk3])])])

\* the new m2
hdma_lu_m2(k, T) ==
  LET kk2 == 2 * grid.iblock
      kk3 == 3 * grid.iblock
  IN  After(T, [T EXCEPT !.m2 = Array(
        [ik \in DOMAIN @ |->
           IF ik \div grid.iblock # k THEN @[ik]
           ELSE IF k < 2 THEN F(1)
           ELSE IF k = 2 THEN RDiv(@[ik], T.m4[ik - kk2])
           ELSE RDiv(RSub(@[ik], RMul(T.m1[ik], T.m5[ik - kk3])), T.m4[ik - kk2])])])

\* the new m3
hdma_lu_m3(k, T) ==
  LET kk1 == grid.iblock
      kk2 == 2 * grid.iblock
      kk3 == 3 * grid.iblock
  IN  After(T, [T EXCEPT !.m3 = Array(
        [ik \in DOMAIN @ |->
           IF ik \div grid.iblock # k THEN @[ik]
           ELSE IF k = 0 THEN RDiv(F(1), T.m4[ik])
           ELSE IF k = 1 THEN RDiv(@[ik], T.m4[ik - kk1])
           ELSE IF k = 2
           THEN RDiv(RSub(@[ik], RMul(T.m2[ik], T.m5[ik - kk2])), T.m4[ik - kk1])
           ELSE RDiv(RSub(RSub(@[ik], RMul(T.m2[ik], T.m5[ik - kk2])),
                          RMul(T.m1[ik], T.m6[ik - kk3])),
                     T.m4[ik - kk1])])])

\* the new m4, m5, m6 and m7
hdma_lu_m4(k, T) ==
  LET kmax == grid.kmax
      kk1 == grid.iblock
      kk2 == 2 * grid.iblock
      kk3 == 3 * grid.iblock
      here(ik) == ik \div grid.iblock = k
  IN  After(T, [T EXCEPT
        !.m4 = Array(
          [ik \in DOMAIN @ |->
             IF ~here(ik) THEN @[ik]
             ELSE IF k = 0 THEN F(1)
             ELSE IF k = 1 THEN RSub(@[ik], RMul(T.m3[ik], T.m5[ik - kk1]))
             ELSE IF k = 2
             THEN RSub(RSub(@[ik], RMul(T.m3[ik], T.m5[ik - kk1])),
                       RMul(T.m2[ik], T.m6[ik - kk2]))
             ELSE RSub(RSub(RSub(@[ik], RMul(T.m3[ik], T.m5[ik - kk1])),
                            RMul(T.m2[ik], T.m6[ik - kk2])),
                       RMul(T.m1[ik], T.m7[ik - kk3]))]),
        !.m5 = Array(
          [ik \in DOMAIN @ |->
             IF ~here(ik) THEN @[ik]
             ELSE IF k = 0 THEN RMul(@[ik], T.m3[ik])
             ELSE IF k = 1 THEN RSub(@[ik], RMul(T.m3[ik], T.m6[ik - kk1]))
             ELSE IF k = kmax + 3 THEN F(1)
             ELSE RSub(RSub(@[ik], RMul(T.m3[ik], T.m6[ik - kk1])),
                       RMul(T.m2[ik], T.m7[ik - kk2]))]),
        !.m6 = Array(
          [ik \in DOMAIN @ |->
             IF ~here(ik) THEN @[ik]
             ELSE IF k = 0 THEN RMul(@[ik], T.m3[ik])
             ELSE IF k >= kmax + 2 THEN F(1)
             ELSE RSub(@[ik], RMul(T.m3[ik], T.m7[ik - kk1]))]),
        !.m7 = Array(
          [ik \in DOMAIN @ |->
             IF ~here(ik) THEN @[ik]
             ELSE IF k = 0 THEN RMul(@[ik], T.m3[ik])
             ELSE IF k >= kmax + 1 THEN F(1)
             ELSE @[ik]])])

\* the LU factorisation of hdma from row k on
RECURSIVE hdma_lu(_, _)
hdma_lu(k, T) ==
  After(T,
    IF k > grid.kmax + 3 THEN T
    ELSE hdma_lu(k + 1, hdma_lu_m4(k, hdma_lu_m3(k, hdma_lu_m2(k, hdma_lu_m1(k, T))))))

\* hdma, solve Ly = p: the rows from k on
RECURSIVE hdma_forward(_, _)
hdma_forward(k, T) ==
  LET kk1 == grid.iblock
      kk2 == 2 * grid.iblock
      kk3 == 3 * grid.iblock
  IN  After(T,
        IF k > grid.kmax + 3 THEN T
        ELSE hdma_forward(k + 1, [T EXCEPT !.p = Array(
               [ik \in DOMAIN @ |->
                  IF ik \div grid.iblock # k THEN @[ik]
                  ELSE IF k = 0 THEN RMul(@[ik], T.m3[ik])
                  ELSE IF k = 1 THEN RSub(@[ik], RMul(@[ik - kk1], T.m3[ik]))
                  ELSE IF k = 2
                  THEN RSub(RSub(@[ik], RMul(@[ik - kk1], T.m3[ik])),
                            RMul(@[ik - kk2], T.m2[ik]))
                  ELSE RSub(RSub(RSub(@[ik], RMul(@[ik - kk1], T.m3[ik])),
                                 RMul(@[ik - kk2], T.m2[ik])),
                            RMul(@[ik - kk3], T.m1[ik]))])]))

\* the backward substitution without the outermost band m7
RECURSIVE hdma_backward_no_m7(_, _)
hdma_backward_no_m7(k, T) ==
  LET kmax == grid.kmax
      kk1 == grid.iblock
      kk2 == 2 * grid.iblock
      kk3 == 3 * grid.iblock
  IN  After(T,
        IF k < 0 THEN T
        ELSE hdma_backward_no_m7(k - 1, [T EXCEPT !.p = Array(
               [ik \in DOMAIN @ |->
                  IF ik \div grid.iblock # k THEN @[ik]
                  ELSE IF k = kmax + 3 THEN RDiv(@[ik], T.m4[ik])
                  ELSE IF k = kmax + 2
                  THEN RDiv(RSub(@[ik], RMul(@[ik + kk1], T.m5[ik])), T.m4[ik])
                  ELSE IF k = kmax + 1
                  THEN RDiv(RSub(RSub(@[ik], RMul(@[ik + kk1], T.m5[ik])),
                                 RMul(@[ik + kk2], T.m6[ik])),
                            T.m4[ik])
                  ELSE RDiv(RSub(RSub(@[ik], RMul(@[ik + kk1], T.m5[ik])),
                                 RMul(@[ik + kk2], T.m6[ik])),
                            T.m4[ik])])]))

\* hdma, solve Ux = y: the rows from k down
RECURSIVE hdma_backward(_, _)
hdma_backward(k, T) ==
  LET kmax == grid.kmax
      kk1 == grid.iblock
      kk2 == 2 * grid.iblock
      kk3 == 3 * grid.iblock
  IN  After(T,
        IF k < 0 THEN T
        ELSE hdma_backward(k - 1, [T EXCEPT !.p = Array(
               [ik \in DOMAIN @ |->
                  IF ik \div grid.iblock # k THEN @[ik]
                  ELSE IF k = kmax + 3 THEN RDiv(@[ik], T.m4[ik])
                  ELSE IF k = kmax + 2
                  THEN RDiv(RSub(@[ik], RMul(@[ik + kk1], T.m5[ik])), T.m4[ik])
                  ELSE IF k = kmax + 1
                  THEN RDiv(RSub(RSub(@[ik], RMul(@[ik + kk1], T.m5[ik])),
                                 RMul(@[ik + kk2], T.m6[ik])),
                            T.m4[ik])
                  ELSE RDiv(RSub(RSub(RSub(@[ik], RMul(@[ik + kk1], T.m5[ik])),
                                      RMul(@[ik + kk2], T.m6[ik])),
                                 RMul(@[ik + kk3], T.m7[ik])),
                            T.m4[ik])])]))

\* Pres_4::hdma: the slices as it leaves them, the solution in p
hdma(T) == hdma_backward(grid.kmax + 3, hdma_forward(0, hdma_lu(0, T)))

\* Pres_4::solve, row n: the solution put back from ptemp into p;
\* acc = [p, tmp] carries p and the slices
solve_put_back(n, acc) ==
  LET iblock == grid.iblock
      kk == grid.iblock * grid.jblock
  IN  After(acc, [acc EXCEPT !.p = Array(
        [x \in DOMAIN @ |->
           IF x \in Compact /\ (x \div iblock) % grid.jblock = n
           THEN acc.tmp.p[(x % iblock) + ((x \div kk) + 2) * iblock]
           ELSE @[x]])])

\* the loop of Pres_4::solve over the rows n of the transposed layout
RECURSIVE solve_slices(_, _)
solve_slices(n, acc) ==
  After(acc,
    IF n >= grid.jblock THEN acc
    ELSE solve_slices(n + 1,
           solve_put_back(n, [acc EXCEPT !.tmp = hdma(solve_fill(n, acc.p, @))])))

\* the copy of the compact part of p into work3d
solve_work3d(pA) == After(pA, Array([x \in Compact |-> pA[x]]))

\* Pres_4::solve after fft_backward: p on the grid with ghost cells
solve_put_p(work3d, pA) ==
  After(<<work3d, pA>>, Array(
    [n \in DOMAIN pA |->
       IF Interior(n)
       THEN work3d[(IOf(n) - grid.igc) + (JOf(n) - grid.jgc) * grid.imax
                   + (KOf(n) - grid.kgc) * grid.imax * grid.jmax]
       ELSE pA[n]]))

\* Pres_4::solve: the zero gradient into the two ghost levels below and above
solve_ghost_p(pA) ==
  LET kkp1 == grid.ijcells
      column(n) == /\ IOf(n) >= grid.istart /\ IOf(n) < grid.iend
                   /\ JOf(n) >= grid.jstart /\ JOf(n) < grid.jend
  IN  After(pA, Array(
        [n \in DOMAIN pA |->
           IF column(n) /\ KOf(n) = grid.kstart - 1 THEN pA[n + kkp1]
           ELSE IF column(n) /\ KOf(n) = grid.kstart - 2 THEN pA[n + 3 * kkp1]
           ELSE IF column(n) /\ KOf(n) = grid.kend THEN pA[n - kkp1]
           ELSE IF column(n) /\ KOf(n) = grid.kend + 1 THEN pA[n - 3 * kkp1]
           ELSE pA[n]]))

\* the same with the cyclic exchange of p before its ghost levels are filled
solve_backward_cyclic_first(back, tmp) ==
  After(back,
    [p |-> solve_ghost_p(boundary_cyclic(solve_put_p(solve_work3d(back), back))),
     work3d |-> solve_work3d(back),
     tmp |-> tmp])

\* Pres_4::solve from fft_backward on; back is p as fft_backward left it
solve_backward(back, tmp) ==
  After(back,
    [p |-> boundary_cyclic(solve_ghost_p(solve_put_p(solve_work3d(back), back))),
     work3d |-> solve_work3d(back),
     tmp |-> tmp])

\* Pres_4::solve from the loop over the rows on
solve_rows(sl) == After(sl, solve_backward(fft_backward(sl.p), sl.tmp))

\* Pres_4::solve: the new p, work3d and slices
Pres_4_solve(pA, T) == solve_rows(solve_slices(0, [p |-> fft_forward(pA), tmp |-> T]))

\* Pres_4::output<dim3>: the new ut, vt and wt
Pres_4_output(utA, vtA, wtA, pA, dzhi4) ==
  LET ii1 == 1
      ii2 == 2
      jj1 == grid.icells
      jj2 == 2 * grid.icells
      kk1 == grid.ijcells
      kk2 == 2 * grid.ijcells
      dim3 == grid.jtot # 1
      cx == RMul(cgi, RDiv(F(1), grid.dx))
      cy == RMul(cgi, RDiv(F(1), grid.dy))
  IN  After(<<pA, cx, cy>>,
        [ut |-> Array([n \in DOMAIN utA |->
                   IF Interior(n)
                   THEN RSub(utA[n],
                             RMul(grad4(pA[n - ii2], pA[n - ii1], pA[n], pA[n + ii1]), cx))
                   ELSE utA[n]]),
         vt |-> Array([n \in DOMAIN vtA |->
                   IF Interior(n) /\ dim3
                   THEN RSub(vtA[n],
                             RMul(grad4(pA[n - jj2], pA[n - jj1], pA[n], pA[n + jj1]), cy))
                   ELSE vtA[n]]),
         wt |-> Array([n \in DOMAIN wtA |->
                   IF Interior(n) /\ KOf(n) >= grid.kstart + 1
                   THEN RSub(wtA[n],
                             RMul(grad4(pA[n - kk2], pA[n - kk1], pA[n], pA[n + kk1]),
                                  dzhi4[KOf(n)]))
                   ELSE wtA[n]])])

\* the loop of calc_divergence from the m-th interior cell on; acc is divmax
RECURSIVE calc_divergence_loop(_, _, _, _, _, _)
calc_divergence_loop(m, uA, vA, wA, dzi4, acc) ==
  After(acc,
    IF m > Len(InteriorSeq) THEN acc
    ELSE LET n == InteriorSeq[m]
             jj1 == grid.icells
             kk1 == grid.ijcells
         IN  calc_divergence_loop(m + 1, uA, vA, wA, dzi4,
               RMax(acc,
                    RAbs(RAdd(RAdd(RMul(grad4(uA[n - 1], uA[n], uA[n + 1], uA[n + 2]),
                                        RMul(cgi, RDiv(F(1), grid.dx))),
                                   RMul(grad4(vA[n - jj1], vA[n], vA[n + jj1],
                                              vA[n + 2 * jj1]),
                                        RMul(cgi, RDiv(F(1), grid.dy)))),
                              RMul(grad4(wA[n - kk1], wA[n], wA[n + kk1], wA[n + 2 * kk1]),
                                   dzi4[KOf(n)]))))))

\* Pres_4::calc_divergence
calc_divergence(uA, vA, wA, dzi4) == calc_divergence_loop(1, uA, vA, wA, dzi4, F(0))

\* Pres_4::init, called before the time loop starts
Pres_4_init ==
  /\ pres4 = Null
  /\ ncalls = 0
  /\ grid.swspatialorder = "4"
  /\ \E g \in Garbage : pres4' = Pres_4_init_arrays(g)
  /\ last' = "pres4_init"
  /\ UNCHANGED <<envVars, fieldVars, forceVars, ncalls, pres, divmax, lin>>

\* Pres_4::set_values, called once after init
Pres_4_set_values ==
  /\ pres4 # Null
  /\ pres4.pc = "init"
  /\ pres4' = set_values(pres4)
  /\ last' = "pres4_set_values"
  /\ UNCHANGED <<envVars, fieldVars, forceVars, ncalls, pres, divmax, lin>>

\* an exec whose hdma is handed m4 itself and not the slice m4temp
Pres_4_exec_lu_in_place ==
  /\ pres4 # Null
  /\ pres4.pc = "set"
  /\ ncalls < MaxPresCalls
  /\ \E in \in {Pres_4_input(p, u, v, w, ut, vt, wt, grid.dzi4, dt)} :
       \E sol \in {Pres_4_solve(in.p, pres4.tmp)} :
         \E out \in {Pres_4_output(in.ut, in.vt, in.wt, sol.p, grid.dzhi4)} :
           /\ p' = sol.p
           /\ ut' = out.ut /\ vt' = out.vt /\ wt' = out.wt
           /\ pres4' = [pres4 EXCEPT !.tmp = sol.tmp, !.work3d = sol.work3d,
                                      !.m4 = [k \in DOMAIN @ |->
                                                sol.tmp.m4[(k + 2) * grid.iblock]]]
  /\ ncalls' = ncalls + 1
  /\ last' = "pres4_exec"
  /\ UNCHANGED <<envVars, u, v, w, st, datamean, forceVars, pres, divmax, lin>>

\* Pres_4::exec
Pres_4_exec ==
  /\ pres4 # Null
  /\ pres4.pc = "set"
  /\ ncalls < MaxPresCalls
  /\ \E in \in {Pres_4_input(p, u, v, w, ut, vt, wt, grid.dzi4, dt)} :
       \E sol \in {Pres_4_solve(in.p, pres4.tmp)} :
         \E out \in {Pres_4_output(in.ut, in.vt, in.wt, sol.p, grid.dzhi4)} :
           /\ p' = sol.p
           /\ ut' = out.ut /\ vt' = out.vt /\ wt' = out.wt
           /\ pres4' = [pres4 EXCEPT !.tmp = sol.tmp, !.work3d = sol.work3d]
  /\ ncalls' = ncalls + 1
  /\ last' = "pres4_exec"
  /\ UNCHANGED <<envVars, u, v, w, st, datamean, forceVars, pres, divmax, lin>>

\* Pres_4::check_divergence
Pres_4_check_divergence ==
  /\ grid.swspatialorder = "4"
  /\ ncalls < MaxPresCalls
  /\ divmax' = calc_divergence(u, v, w, grid.dzi4)
  /\ ncalls' = ncalls + 1
  /\ last' = "check_divergence"
  /\ UNCHANGED <<envVars, fieldVars, forceVars, pres, pres4, lin>>

NextPres4 ==
  \/ Pres_4_init
  \/ Pres_4_set_values
  \/ Pres_4_exec
  \/ timeloop_exec
  \/ Pres_4_check_divergence

---------------------------------------------------------------------------
\* SpecPres4: the fourth order solver on periodic 2 x 1 x 3 (input<false>,
\* modes (0,0) and (1,0)) and 1 x 2 x 3 (input<true>, modes (0,0) and (0,1))
\* grids with two ghost cells, uniform and non-uniform metrics; the ghost
\* levels of w mirrored, those of wt not yet; w and wt on the inner faces sum
\* to zero over a level; w on the wall faces zero or not, balanced or not

Pres4Grids ==
  {PresGrid4(MakeGrid(2, 1, 3, 2, "4", <<F(1), F(1), F(1)>>,
                      <<F(1), F(1), F(1), F(1)>>, F(0), F(0)),
             F(2), F(1),
             [k \in 1 .. 7 |-> RDiv(F(1), F(24))], [k \in 1 .. 7 |-> RDiv(F(1), F(24))]),
   PresGrid4(MakeGrid(1, 2, 3, 2, "4", <<F(1), F(2), F(3)>>,
                      <<F(1), F(1), F(1), F(1)>>, F(0), F(0)),
             F(1), F(3),
             [k \in 1 .. 7 |-> F(k + 1)], [k \in 1 .. 7 |-> F(2 * k + 1)])}

InitPres4 ==
  /\ ForceOff
  /\ grid \in Pres4Grids
  /\ pres = Null /\ pres4 = Null /\ divmax = Null /\ lin = Null
  /\ ncalls = 0 /\ last = "start"
  /\ time = F(0)
  /\ dt = RDiv(F(1), F(2))
  /\ st = [name \in FieldsSp |-> [n \in Cells |-> F(0)]]
  /\ datamean = [name \in FieldsSp |-> [k \in 0 .. grid.kcells - 1 |-> F(0)]]
  /\ p = [n \in Cells |-> F(5)]
  /\ u = LET g(i, j, k) == IF k < grid.kend THEN F(1 + i + 2 * j + 2 * k) ELSE F(0)
         IN  FieldFrom(g, TRUE)
  /\ v = LET g(i, j, k) == IF k < grid.kend THEN F(k + 3 * j) ELSE F(0)
         IN  FieldFrom(g, TRUE)
  /\ ut = LET g(i, j, k) == IF i = 0 /\ k = grid.kstart THEN F(1) ELSE F(0)
          IN  FieldFrom(g, FALSE)
  /\ vt = LET g(i, j, k) == IF j = 1 /\ k = grid.kstart + 1 THEN F(2) ELSE F(0)
          IN  FieldFrom(g, FALSE)
  /\ \E bottom \in {0, 1}, top \in {<<0, 0>>, <<1, 1>>, <<1, -1>>} :
       w = LET g(i, j, k) == IF k = grid.kstart THEN F(bottom)
                             ELSE IF k = grid.kend THEN F(top[i + j + 1])
                             ELSE F((1 + k) * (1 - 2 * (i + j)))
           IN  set_ghost_cells_w(FieldFrom(g, TRUE))
  /\ wt = LET g(i, j, k) == IF k = grid.kstart \/ k = grid.kend THEN F(0)
                            ELSE F((3 + k) * (1 - 2 * (i + j)))
          IN  [n \in Cells |->
                 IF KOf(n) < grid.kstart \/ KOf(n) > grid.kend THEN F(7)
                 ELSE FieldFrom(g, FALSE)[n]]

SpecPres4 == InitPres4 /\ [][NextPres4]_vars

\* C2 as stated: for any provisional fields (the ghost levels of w mirrored),
\* the Euler update that follows Pres_4::exec leaves calc_divergence = 0.
C2_AnyFields ==
  [][(last = "pres4_exec" /\ last' = "timeloop" /\ grid.swspatialorder = "4")
       => calc_divergence(u', v', w', grid.dzi4) = F(0)]_vars

\* C2 amended: the same for provisional fields whose wt + w/dt has the same
\* horizontal sum on the bottom and on the top wall faces.
C2_Projection ==
  [][(last = "pres4_exec" /\ last' = "timeloop" /\ grid.swspatialorder = "4"
        /\ WallFlux(grid.kstart) = WallFlux(grid.kend))
       => calc_divergence(u', v', w', grid.dzi4) = F(0)]_vars

\* after exec and the Euler update on the non-uniform grid: the pressure
\* varies along the column and between the columns, w is non-zero on a
\* wall, and no divergence is left
C2_Witness ==
  /\ last = "timeloop" /\ ncalls = 2 /\ pres4 # Null /\ grid.swspatialorder = "4"
  /\ grid.dzhi4[grid.kstart] # grid.dzhi4[grid.kstart + 1]
  /\ \E n, m \in InteriorCells : KOf(n) = KOf(m) /\ p[n] # p[m] /\ RAdd(p[n], p[m]) # F(0)
  /\ \E n, m \in InteriorCells : IOf(n) = IOf(m) /\ JOf(n) = JOf(m) /\ p[n] # p[m]
  /\ \E n \in Cells : KOf(n) = grid.kend /\ w[n] # F(0)
  /\ calc_divergence(u, v, w, grid.dzi4) = F(0)


---------------------------------------------------------------------------
\* SpecSolvers: the runs of SpecPres and of SpecPres4 together

SpecSolvers ==
  /\ InitPres \/ InitPres4
  /\ [][\/ cpres_init
        \/ cpres_exec
        \/ cpres_divergence
        \/ Pres_4_init
        \/ Pres_4_set_values
        \/ Pres_4_exec
        \/ Pres_4_check_divergence
        \/ timeloop_exec]_vars

\* the step is a call of exec of the solver of the run
ExecStep == last' \in {"pres_exec", "pres4_exec"} /\ ncalls' = ncalls + 1

\* the right-hand side the input kernel builds from the present fields is zero
\* in every interior cell
RhsZero ==
  IF grid.swspatialorder = "2"
  THEN LET rhs == pres_2nd_in(p, u, v, w, boundary_cyclic(ut), boundary_cyclic(vt),
                              boundary_cyclic(wt), grid.dzi, dt)
       IN  \A n \in InteriorCells : rhs[n] = F(0)
  ELSE LET rhs == Pres_4_input(p, u, v, w, ut, vt, wt, grid.dzi4, dt).p
       IN  \A n \in Compact : rhs[n] = F(0)

\* the step leaves ut, vt and wt as they are in every interior cell
TendenciesKept ==
  \A n \in InteriorCells : ut'[n] = ut[n] /\ vt'[n] = vt[n] /\ wt'[n] = wt[n]

\* the run so far is one exec followed by one Euler update
ExecThenEuler ==
  /\ last = "timeloop" /\ ncalls = 2 /\ time = dt /\ divmax = Null
  /\ (pres # Null \/ pres4 # Null)

\* C11 as stated, its consequence: an exec that runs on the output of a first
\* exec after the Euler update changes no interior tendency.
C11_SecondExec ==
  [][(ExecThenEuler /\ ExecStep) => TendenciesKept]_vars

\* C11 amended: an exec whose input kernel builds a right-hand side that is
\* zero in every interior cell leaves p zero in every cell and ut, vt, wt as
\* they are in every interior cell.
C11_Idempotence ==
  [][(ExecStep /\ RhsZero)
       => /\ \A n \in Cells : p'[n] = F(0)
          /\ TendenciesKept]_vars

\* an exec has just run on fields whose right-hand side was zero: the exec
\* before it left a pressure that varies, and this one left p zero
C11_Witness ==
  /\ last \in {"pres_exec", "pres4_exec"} /\ ncalls = 2
  /\ time = F(0) /\ divmax = Null
  /\ \A n \in Cells : p[n] = F(0)
  /\ \E n \in InteriorCells : ut[n] # F(0) /\ wt[n] # F(0)
  /\ RhsZero


\* C12: after exec p is periodic in both horizontal directions (every halo
\* cell holds the value of its interior image) on every level of the field,
\* the ghost levels the projection reads included; in the fourth order solver
\* the ghost levels hold p[kstart-1] = p[kstart], p[kstart-2] = p[kstart+1],
\* p[kend] = p[kend-1] and p[kend+1] = p[kend-2] in every column, halo
\* columns included.
C12_Periodic ==
  last \in {"pres_exec", "pres4_exec"}
    => /\ \A n \in Cells : p[n] = p[Image(n)]
       /\ grid.swspatialorder = "4"
            => \A n \in Cells :
                 /\ KOf(n) = grid.kstart - 1 => p[n] = p[n + grid.ijcells]
                 /\ KOf(n) = grid.kstart - 2 => p[n] = p[n + 3 * grid.ijcells]
                 /\ KOf(n) = grid.kend => p[n] = p[n - grid.ijcells]
                 /\ KOf(n) = grid.kend + 1 => p[n] = p[n - 3 * grid.ijcells]
       /\ grid.swspatialorder = "2"
            => \A n \in Cells :
                 /\ KOf(n) = grid.kstart - 1 => p[n] = p[n + grid.ijcells]
                 /\ KOf(n) = grid.kend => p[n] = p[n - grid.ijcells]

\* the fourth order exec has run and left a pressure that differs between
\* the columns of a level and between the levels of a column
C12_Witness ==
  /\ last = "pres4_exec"
  /\ \E n, m \in InteriorCells : KOf(n) = KOf(m) /\ p[n] # p[m]
  /\ \E n, m \in InteriorCells : IOf(n) = IOf(m) /\ JOf(n) = JOf(m) /\ p[n] # p[m]
  /\ \E n \in Cells : ~Interior(n) /\ KOf(n) = grid.kstart - 1 /\ p[n] # p[n + 1]


\* the right-hand side the input kernel builds from the present fields, as a
\* field on the interior cells
Rhs ==
  IF grid.swspatialorder = "2"
  THEN pres_2nd_in(p, u, v, w, boundary_cyclic(ut), boundary_cyclic(vt),
                   boundary_cyclic(wt), grid.dzi, dt)
  ELSE solve_put_p(solve_work3d(Pres_4_input(p, u, v, w, ut, vt, wt, grid.dzi4, dt).p), p)

\* the sum of f over the first m interior columns of level k: its mode (0,0)
RECURSIVE LevelSumTo(_, _, _)
LevelSumTo(f, k, m) ==
  IF m = 0 THEN F(0)
  ELSE RAdd(LevelSumTo(f, k, m - 1),
            f[grid.istart + ((m - 1) % grid.imax)
              + (grid.jstart + ((m - 1) \div grid.imax)) * grid.icells
              + k * grid.ijcells])
LevelSum(f, k) == LevelSumTo(f, k, grid.imax * grid.jmax)

\* the right-hand side has zero horizontal mean on every level
ZeroMeanRhs == \A k \in grid.kstart .. grid.kend - 1 : LevelSum(Rhs, k) = F(0)

\* the top row of the tridiagonal system of every column holds for the
\* transforms ph of the solved p and rh of the right-hand side, with the value
\* above the top level taken as -ph[top] in column (0,0) and as +ph[top] in
\* every other column
TopRows2(ph, rh) ==
  \A i \in 0 .. grid.imax - 1, j \in 0 .. grid.jmax - 1 :
    LET kt == grid.ktot - 1
        dz2 == RMul(grid.dz[kt + grid.kgc], grid.dz[kt + grid.kgc])
        at(k) == i + grid.igc + (j + grid.jgc) * grid.icells + (k + grid.kgc) * grid.ijcells
        below == IF kt = 0 THEN ph[at(kt)] ELSE ph[at(kt - 1)]
        above == IF i = 0 /\ j = 0 THEN RNeg(ph[at(kt)]) ELSE ph[at(kt)]
    IN  RAdd(RAdd(RMul(pres.a[kt], below),
                  RMul(RSub(RMul(dz2, RAdd(pres.bmati[i], pres.bmatj[j])),
                            RAdd(pres.a[kt], pres.c[kt])),
                       ph[at(kt)])),
             RMul(pres.c[kt], above))
        = RMul(dz2, rh[at(kt)])

\* the two top rows of the heptadiagonal system hold for the solution x that
\* hdma leaves for row n of the transposed layout: the pinning rows in column
\* (0,0), the zero gradient rows in every other column
TopRows4(n, x) ==
  \A i \in 0 .. grid.iblock - 1 :
    LET kmax == grid.kmax
        at(k) == i + k * grid.iblock
    IN  IF i = 0 /\ n = 0
        THEN /\ RAdd(RAdd(RMul(RDiv(F(-1), F(3)), x[at(kmax)]), RMul(F(2), x[at(kmax + 1)])),
                     x[at(kmax + 2)]) = F(0)
             /\ RAdd(RAdd(RMul(F(-2), x[at(kmax)]), RMul(F(9), x[at(kmax + 1)])),
                     x[at(kmax + 3)]) = F(0)
        ELSE /\ x[at(kmax + 2)] = x[at(kmax + 1)]
             /\ x[at(kmax + 3)] = x[at(kmax)]

\* C13: in every exec only column (0,0) is solved with the pinning top
\* boundary and every other column with the zero gradient one (second order:
\* the top row of each column; fourth order: the two top rows of each column
\* of each slice), and for a right-hand side with zero horizontal mean on
\* every level the mode (0,0) of the solved p is zero at the top level.
C13_Pinning ==
  [][ExecStep =>
       /\ grid.swspatialorder = "2"
            => TopRows2(pres_2nd_fft_j(pres_2nd_fft_i(p', FALSE), FALSE),
                        pres_2nd_fft_j(pres_2nd_fft_i(Rhs, FALSE), FALSE))
       /\ grid.swspatialorder = "4"
            => \A n \in 0 .. grid.jblock - 1 :
                 TopRows4(n, hdma(solve_fill(n, fft_forward(solve_work3d(
                   Pres_4_input(p, u, v, w, ut, vt, wt, grid.dzi4, dt).p)), pres4.tmp)).p)
       /\ ZeroMeanRhs => LevelSum(p', grid.kend - 1) = F(0)]_vars

\* the right-hand side an exec has just solved keeps its zero mean on every
\* level and is not zero, and the pressure it left varies over the top level
\* with mode (0,0) zero
C13_Witness ==
  /\ last \in {"pres_exec", "pres4_exec"} /\ ncalls = 1
  /\ \E n, m \in InteriorCells :
       /\ KOf(n) = grid.kend - 1 /\ KOf(m) = grid.kend - 1
       /\ p[n] # F(0) /\ p[n] # p[m]
  /\ LevelSum(p, grid.kend - 1) = F(0)
  /\ \A k \in grid.kstart .. grid.kend : WallFlux(k) = F(0)


\* the interior cell whose value a halo or ghost cell of p takes: its periodic
\* image, on the level the ghost level copies
Rep(n) ==
  LET k == KOf(n)
      kr == IF k < grid.kstart
            THEN (IF grid.swspatialorder = "4" THEN 2 * grid.kstart - 1 - k ELSE grid.kstart)
            ELSE IF k >= grid.kend
            THEN (IF grid.swspatialorder = "4" THEN 2 * grid.kend - 1 - k ELSE grid.kend - 1)
            ELSE k
  IN  Image(n) + (kr - k) * grid.ijcells
\* p with every halo and ghost cell refreshed from the interior
Refreshed(pA) == [n \in DOMAIN pA |-> pA[Rep(n)]]

\* the tendencies the exec about to run hands to its right-hand-side kernel
RhsTendencies ==
  IF grid.swspatialorder = "2"
  THEN [ut |-> boundary_cyclic(ut), vt |-> boundary_cyclic(vt), wt |-> boundary_cyclic(wt)]
  ELSE Pres_4_input(p, u, v, w, ut, vt, wt, grid.dzi4, dt)

\* f and g agree in every interior cell
SameInterior(f, g) == \A n \in InteriorCells : f[n] = g[n]

Kept2(names) == (pres # Null) => \A f \in names : pres'[f] = pres[f]
Kept4(names) == (pres4 # Null /\ pres4.pc = "set") => \A f \in names : pres4'[f] = pres4[f]

\* C15 as stated: no call made after init / set_values changes bmati, bmatj,
\* a, b, c of the second order solver or bmati, bmatj, m1 .. m7 of the fourth
\* order solver.
C15_AllImmutable ==
  [][/\ Kept2({"bmati", "bmatj", "a", "b", "c"})
     /\ Kept4({"bmati", "bmatj", "m1", "m2", "m3", "m4", "m5", "m6", "m7"})]_vars

\* C15 amended: no call made after init / set_values changes bmati, bmatj, a,
\* c of the second order solver or bmati, bmatj, m1 .. m7 of the fourth order
\* solver (the diagonal b of the second order solver is a work array that
\* every column solve rewrites; hdma factorises the slices only).
C15_Immutable ==
  [][/\ Kept2({"bmati", "bmatj", "a", "c"})
     /\ Kept4({"bmati", "bmatj", "m1", "m2", "m3", "m4", "m5", "m6", "m7"})]_vars

\* two execs of the fourth order solver have run: hdma has left its factors in
\* the slice m4temp, which differs from the row it was filled with
C15_Witness ==
  /\ last = "pres4_exec" /\ ncalls = 2
  /\ \E k \in 0 .. grid.kmax - 1 :
       /\ pres4.m4[k] # F(0)
       /\ pres4.tmp.m4[(k + 2) * grid.iblock]
            # RAdd(RAdd(pres4.m4[k], pres4.bmati[0]), pres4.bmatj[grid.jblock - 1])


---------------------------------------------------------------------------
\* SpecKernels: the runs of the two pressure solvers, and the runs of a Force
\* object with the geostrophic forcing, the large scale source of "s" and the
\* subsidence switched on, 2 x 2 x 2 grid, second and fourth order

KernelGrids ==
  {MakeGrid(2, 2, 2, 2, order, <<R(1), R(2)>>, <<R(1), R(2), R(1)>>, R(1), R(0)) :
     order \in {"2", "4"}}

InitKernels ==
  /\ InitObject
  /\ grid \in KernelGrids
  /\ input = [items |-> Items("geo", "1", "1", Absent, Absent, R(2)),
              lists |-> [k \in {"lslist"} |-> <<"s">>],
              profs |-> [k \in {"ug", "vg", "sls", "wls"} |->
                           IF k = "wls" THEN [l \in 1 .. grid.kmax |-> R(3 - 2 * l)]
                           ELSE IF k = "sls" THEN ProfileOf(10)
                           ELSE [l \in 1 .. grid.kmax |-> R(l)]],
              timeprofs |-> EmptyMap]
  /\ time = R(0)
  /\ dt = R(1)
  /\ u = FieldOf([n \in InteriorCells |-> R(n)])
  /\ v \in {FieldOf([n \in InteriorCells |-> R(a * n * n)]) : a \in {0, 1}}
  /\ ut = ZeroField /\ vt = ZeroField
  /\ st = [name \in FieldsSp |-> ZeroField]
  /\ datamean = [name \in FieldsSp |-> [k \in 0 .. grid.kcells - 1 |-> R(k * k)]]

\* the run is one of a pressure solver (its grid carries dx and dy)
SolverRun == "dx" \in DOMAIN grid

SpecKernels ==
  /\ InitPres \/ InitPres4 \/ InitKernels
  /\ [][\/ SolverRun /\ cpres_init
        \/ SolverRun /\ cpres_exec
        \/ SolverRun /\ cpres_divergence
        \/ SolverRun /\ Pres_4_init
        \/ SolverRun /\ Pres_4_set_values
        \/ SolverRun /\ Pres_4_exec
        \/ SolverRun /\ Pres_4_check_divergence
        \/ ~SolverRun /\ Force_ctor
        \/ ~SolverRun /\ Force_init
        \/ ~SolverRun /\ Force_create
        \/ ~SolverRun /\ Force_exec
        \/ timeloop_exec]_vars

\* the orders in which the N iterations of a loop are executed: that of the
\* code, its reverse, and the odd iterations before the even ones
LoopOrders == {"forward", "reverse", "odd first"}
Position(order, m, N) ==
  IF order = "forward" THEN m
  ELSE IF order = "reverse" THEN N + 1 - m
  ELSE IF 2 * m - 1 <= N THEN 2 * m - 1
  ELSE 2 * (m - ((N + 1) \div 2))

\* iteration q (counted in the order of the code) of the loop of a kernel,
\* executed in place on the arrays A
Iteration(kernel, q, A) ==
  LET n == InteriorSeq[q]
  IN  CASE kernel = "pres_2nd_in" ->
             [A EXCEPT !.p[n] = pres_2nd_in(A.p, u, v, w, A.ut, A.vt, A.wt, grid.dzi, dt)[n]]
        [] kernel = "pres_2nd_solve" ->
             pres_2nd_solve_put(q - 1,
               pres_2nd_solve_tdma(pres_2nd_solve_fill(q - 1, grid.dz, A)))
        [] kernel = "pres_2nd_out" ->
             LET out == pres_2nd_out(A.ut, A.vt, A.wt, A.p, grid.dzhi)
             IN  [A EXCEPT !.ut[n] = out.ut[n], !.vt[n] = out.vt[n], !.wt[n] = out.wt[n]]
        [] kernel = "Pres_4_input" ->
             [A EXCEPT !.p[q - 1] =
                Pres_4_input(A.p, u, v, w, A.ut, A.vt, A.wt, grid.dzi4, dt).p[q - 1]]
        [] kernel = "Pres_4_solve" ->
             solve_put_back(q - 1, [A EXCEPT !.tmp = hdma(solve_fill(q - 1, A.p, @))])
        [] kernel = "Pres_4_output" ->
             LET out == Pres_4_output(A.ut, A.vt, A.wt, A.p, grid.dzhi4)
             IN  [A EXCEPT !.ut[n] = out.ut[n], !.vt[n] = out.vt[n], !.wt[n] = out.wt[n]]
        [] kernel = "calcCoriolis_ut" ->
             [A EXCEPT !.ut[n] =
                (IF grid.swspatialorder = "2"
                 THEN calcCoriolis_2nd(A.ut, A.vt, u, v, ug, vg)
                 ELSE calcCoriolis_4th(A.ut, A.vt, u, v, ug, vg)).ut[n]]
        [] kernel = "calcCoriolis_vt" ->
             [A EXCEPT !.vt[n] =
                (IF grid.swspatialorder = "2"
                 THEN calcCoriolis_2nd(A.ut, A.vt, u, v, ug, vg)
                 ELSE calcCoriolis_4th(A.ut, A.vt, u, v, ug, vg)).vt[n]]
        [] kernel = "calcLargeScaleSource" ->
             [A EXCEPT !.st[n] = calcLargeScaleSource(A.st, lsprofs[A.name])[n]]
        [] kernel = "advec_wls_2nd" ->
             [A EXCEPT !.st[n] =
                advec_wls_2nd(A.st, datamean[A.name], wls, grid.dzhi)[n]]

\* the loop of a kernel from its m-th executed iteration on
RECURSIVE RunLoop(_, _, _, _, _)
RunLoop(kernel, order, m, N, A) ==
  After(A,
    IF m > N THEN A
    ELSE RunLoop(kernel, order, m + 1, N, Iteration(kernel, Position(order, m, N), A)))

\* the arrays cpres::exec leaves when the loops of its kernels run in the order
ExecInOrder2(order) ==
  LET cells == grid.imax * grid.jmax * grid.kmax
      in == RunLoop("pres_2nd_in", order, 1, cells,
                    [p |-> p, ut |-> boundary_cyclic(ut), vt |-> boundary_cyclic(vt),
                     wt |-> boundary_cyclic(wt)])
      sol == RunLoop("pres_2nd_solve", order, 1, grid.imax * grid.jmax,
                     [p |-> pres_2nd_fft_j(pres_2nd_fft_i(in.p, FALSE), FALSE),
                      b |-> pres.b, xin |-> pres.xin, xout |-> pres.xout, d |-> pres.d])
      p2 == boundary_bottop(boundary_cyclic(
              pres_2nd_fft_i(pres_2nd_fft_j(sol.p, TRUE), TRUE)))
      out == RunLoop("pres_2nd_out", order, 1, cells, [in EXCEPT !.p = p2])
  IN  [fields |-> out,
       work |-> [pres EXCEPT !.b = sol.b, !.xin = sol.xin, !.xout = sol.xout, !.d = sol.d]]

\* the arrays Pres_4::exec leaves when the loops of its kernels run in the order
ExecInOrder4(order) ==
  LET cells == grid.imax * grid.jmax * grid.kmax
      halo == Pres_4_input(p, u, v, w, ut, vt, wt, grid.dzi4, dt)
      in == RunLoop("Pres_4_input", order, 1, cells, [halo EXCEPT !.p = p])
      sl == RunLoop("Pres_4_solve", order, 1, grid.jblock,
                    [p |-> fft_forward(in.p), tmp |-> pres4.tmp])
      sol == solve_rows(sl)
      out == RunLoop("Pres_4_output", order, 1, cells, [in EXCEPT !.p = sol.p])
  IN  [fields |-> out,
       work |-> [pres4 EXCEPT !.tmp = sol.tmp, !.work3d = sol.work3d]]

\* ut, vt and st that Force::exec leaves when the loops of its kernels run in
\* the order
ForceInOrder(order) ==
  LET cells == grid.imax * grid.jmax * grid.kmax
      cor == RunLoop("calcCoriolis_vt", order, 1, cells,
               RunLoop("calcCoriolis_ut", order, 1, cells, [ut |-> ut, vt |-> vt]))
      geo == IF swlspres = "geo" THEN cor ELSE [ut |-> ut, vt |-> vt]
      ls(name) == IF swls = "1" /\ InSeq(name, lslist)
                  THEN RunLoop("calcLargeScaleSource", order, 1, cells,
                               [st |-> st[name], name |-> name])
                  ELSE [st |-> st[name], name |-> name]
      wl(name) == IF swwls = "1"
                  THEN RunLoop("advec_wls_2nd", order, 1, cells, ls(name))
                  ELSE ls(name)
  IN  [ut |-> geo.ut, vt |-> geo.vt, st |-> [name \in DOMAIN st |-> wl(name).st]]

\* the step is a call of Force::exec that runs its kernels
ForceStep == last' = "exec" /\ ncalls' = ncalls + 1 /\ fstate' = "created" /\ ~SolverRun

\* the fields of the next state are those the kernels leave in the order
SameFields(order) ==
  /\ ExecStep /\ grid.swspatialorder = "2" =>
       LET r == ExecInOrder2(order).fields
       IN  p' = r.p /\ ut' = r.ut /\ vt' = r.vt /\ wt' = r.wt
  /\ ExecStep /\ grid.swspatialorder = "4" =>
       LET r == ExecInOrder4(order).fields
       IN  p' = r.p /\ ut' = r.ut /\ vt' = r.vt /\ wt' = r.wt
  /\ ForceStep =>
       LET r == ForceInOrder(order)
       IN  ut' = r.ut /\ vt' = r.vt /\ st' = r.st

\* C16 as stated: whatever the order in which the iterations of each kernel
\* run, every array the call leaves is the same, the arrays of the solver
\* object included.
C16_AnyOrderAllArrays ==
  [][\A order \in LoopOrders :
       /\ SameFields(order)
       /\ ExecStep /\ grid.swspatialorder = "2" => pres' = ExecInOrder2(order).work
       /\ ExecStep /\ grid.swspatialorder = "4" => pres4' = ExecInOrder4(order).work]_vars

\* C16 amended: whatever the order in which the iterations of each kernel
\* run one after the other (right-hand side, column solve, projection,
\* Coriolis, large scale source, subsidence), the fields the call leaves are
\* the same: p, ut, vt, wt after an exec of a pressure solver; ut, vt and st
\* after Force::exec.
C16_AnyOrder ==
  [][\A order \in LoopOrders : SameFields(order)]_vars

\* a Force::exec has run all its kernels on the fourth order grid
C16_Witness ==
  /\ ~SolverRun /\ last = "exec" /\ fstate = "created" /\ grid.swspatialorder = "4"
  /\ swlspres = "geo" /\ swls = "1" /\ swwls = "1"
  /\ \E n, m \in InteriorCells : ut[n] # ut[m] /\ vt[n] # vt[m] /\ st["s"][n] # st["s"][m]
  /\ \E n \in InteriorCells : st["q"][n] # R(0)


---------------------------------------------------------------------------
\* the step is a call of Force::exec, of Force::updateTimeDep
ForceExecStep == last' = "exec" /\ ncalls' = ncalls + 1 /\ fstate = "created"
UpdateStep == last' = "updateTimeDep" /\ ncalls' = ncalls + 1

\* the step adds to st of every name of lslist, at every interior cell, the
\* value of lsprofs published last and nothing to st of another scalar
\* (besides the subsidence term when swwls = "1")
SourcesAdded ==
  /\ \A i \in DOMAIN lslist : lslist[i] \in DOMAIN st'
  /\ \A name \in DOMAIN st' : \A n \in InteriorCells :
       RSub(st'[name][n], st[name][n])
         = RAdd(LargeScaleSource(name, KOf(n)),
                IF swwls = "1" THEN Upwind(name, KOf(n)) ELSE R(0))

\* the step changes lsprofs only in the interior entries of the profiles that
\* have a time-dependent table
OnlyTablesUpdated ==
  /\ DOMAIN lsprofs' = DOMAIN lsprofs
  /\ \A name \in DOMAIN lsprofs : \A k \in DOMAIN lsprofs[name] :
       lsprofs'[name][k] # lsprofs[name][k]
         => /\ (name \o "ls") \in DOMAIN timedepdata
            /\ k >= grid.kstart /\ k < grid.kend

\* C17: on a created object, whatever the interleaving of updateTimeDep and
\* exec, every exec with swls = "1" adds to st of each name of lslist, at
\* every interior cell of level k, the value lsprofs[name][k] that the last
\* updateTimeDep published (or create loaded), and to no other scalar; exec
\* leaves ug, vg, wls and lsprofs as they are; updateTimeDep changes only the
\* interior entries of the profiles that have a time-dependent table.
C17_Lifecycle ==
  [][/\ (ForceExecStep /\ swls = "1") => SourcesAdded
     /\ ForceExecStep => ug' = ug /\ vg' = vg /\ wls' = wls /\ lsprofs' = lsprofs
     /\ UpdateStep => ug' = ug /\ vg' = vg /\ wls' = wls /\ OnlyTablesUpdated]_vars

\* the same for the calls of exec that return
C17_LifecycleOfReturningExec ==
  [][/\ (ForceExecStep /\ swls = "1" /\ fstate' = "created") => SourcesAdded
     /\ ForceExecStep => ug' = ug /\ vg' = vg /\ wls' = wls /\ lsprofs' = lsprofs
     /\ UpdateStep => ug' = ug /\ vg' = vg /\ wls' = wls /\ OnlyTablesUpdated]_vars

\* exec has run after an updateTimeDep that published a row of the table of
\* "s", and has added that row and not the profile create had loaded
C17_Witness ==
  /\ last = "exec" /\ ncalls = 2 /\ fstate = "created" /\ swls = "1"
  /\ lslist = <<"s", "q">> /\ timedeplist = <<"s", "q">>
  /\ \E n \in InteriorCells :
       /\ st["s"][n] = lsprofs["s"][KOf(n)]
       /\ st["s"][n] # input.profs["sls"][KOf(n) - grid.kgc + 1]


---------------------------------------------------------------------------
\* the step is a call of the constructor
CtorStep == last' = "Force" /\ fstate = "none"
Constructed == fstate \in {"constructed", "inited", "created"}

\* C18 as stated: an object constructed with swwls = "1" has the mean
\* profiles of Fields switched on before any exec can run, the constructor
\* does not switch them on with swwls = "0", and a constructor call that
\* throws leaves the switch as it was.
C18_FailedCtorKeepsSwitch ==
  [][/\ (Constructed' /\ swwls' = "1") => calcMeanProfs'
     /\ (CtorStep /\ swwls' = "0") => calcMeanProfs' = calcMeanProfs
     /\ (CtorStep /\ fstate' = "thrown") => calcMeanProfs' = calcMeanProfs]_vars

\* C18: an object constructed with swwls = "1" has the mean profiles of
\* Fields switched on before any exec can run; the constructor switches them
\* on exactly when swwls = "1" is configured, whether it then returns or
\* throws for another configuration error, and leaves the switch as it was
\* for every other value of swwls.
C18_MeanProfs ==
  [][/\ (Constructed' /\ swwls' = "1") => calcMeanProfs'
     /\ CtorStep => calcMeanProfs' = (calcMeanProfs \/ Configured("swwls") = "1")
     /\ ~CtorStep => calcMeanProfs' = calcMeanProfs]_vars

\* a constructor call with swwls = "1" has thrown for another switch and
\* has switched the mean profiles on
C18_Witness ==
  /\ last = "Force" /\ fstate = "thrown" /\ swwls = "1"
  /\ Configured("swls") = "2"
  /\ calcMeanProfs


---------------------------------------------------------------------------
\* SpecTdma: tdma on its own, on every system of one to three rows with the
\* entries below, in exact rationals; and the second order solver on grids
\* of one to three levels, uniform and not, with one or two columns along x
\* and along y (every wavenumber pair of the transforms of length 1 and 2)

MaxSize == 3

\* the systems handed to tdma: a, b, c, xin over 0 .. size - 1 (a[0] and
\* c[size - 1], which tdma never reads, are 1); xout and gam hold what the
\* caller left in them: a number, or for gam also memory never set (NaN,
\* which every operation that reads it hands on); d keeps the gam handed over
Systems ==
  {[s EXCEPT !.gam = s.d] : s \in
    UNION {[size : {n},
            a : {f \in [0 .. n - 1 -> {R(1), R(-2)}] : f[0] = R(1)},
            b : [0 .. n - 1 -> {R(1), R(-2), R(0)}],
            c : {f \in [0 .. n - 1 -> {R(1), R(3)}] : f[n - 1] = R(1)},
            xin : [0 .. n - 1 -> {R(0), R(1)}],
            xout : {[k \in 0 .. n - 1 |-> R(7)]},
            gam : {<<>>},
            d : {[k \in 0 .. n - 1 |-> R(7)], [k \in 0 .. n - 1 |-> NaN]},
            done : {FALSE}] : n \in 1 .. MaxSize}}

\* the stretched grid of cell heights dzs: the faces lie half way between
\* the cell centres, the wall faces half a cell from the first and the last
TdmaGrid(itot, jtot, dzs) ==
  LET n == Len(dzs)
  IN  PresGrid(MakeGrid(itot, jtot, n, 1, "2", dzs,
                 [k \in 1 .. n + 1 |->
                    IF k = 1 THEN RDiv(F(1), dzs[1])
                    ELSE IF k = n + 1 THEN RDiv(F(1), dzs[n])
                    ELSE RDiv(F(2), RAdd(dzs[k - 1], dzs[k]))],
                 F(0), F(0)),
               F(2), F(1))

TdmaGrids ==
  {TdmaGrid(it, jt, dzs) :
     it \in {1, 2}, jt \in {1, 2},
     dzs \in {<<F(1)>>, <<F(2)>>, <<F(1), F(1)>>, <<F(1), F(2)>>,
              <<F(1), F(1), F(1)>>, <<F(1), F(2), F(3)>>,
              <<RDiv(F(1), F(2)), F(1), F(3)>>}}

InitTdma ==
  /\ ForceOff
  /\ pres = Null /\ pres4 = Null /\ divmax = Null
  /\ ncalls = 0 /\ last = "start"
  /\ time = F(0) /\ dt = F(1)
  /\ \/ grid \in TdmaGrids /\ lin = Null
     \/ grid = TdmaGrid(1, 1, <<F(1)>>) /\ lin \in Systems
  /\ st = [name \in FieldsSp |-> [n \in Cells |-> F(0)]]
  /\ datamean = [name \in FieldsSp |-> [k \in 0 .. grid.kcells - 1 |-> F(0)]]
  /\ p = [n \in Cells |-> F(0)]
  /\ u = LET g(i, j, k) == IF k < grid.kend THEN F(1 + i + 2 * k) ELSE F(0)
         IN  FieldFrom(g, TRUE)
  /\ v = LET g(i, j, k) == IF k < grid.kend THEN F(j + k) ELSE F(0)
         IN  FieldFrom(g, TRUE)
  /\ w = [n \in Cells |-> F(0)]
  /\ ut = LET g(i, j, k) == IF i = 0 /\ k = grid.kstart THEN F(1) ELSE F(0)
          IN  FieldFrom(g, FALSE)
  /\ vt = [n \in Cells |-> F(0)]
  /\ wt = LET g(i, j, k) == IF k = grid.kstart THEN F(0) ELSE F(1 + i + j + k)
          IN  FieldFrom(g, FALSE)

\* a call of cpres::tdma on the arrays of lin
cpres_tdma ==
  /\ lin # Null /\ ~lin.done
  /\ \E r \in {tdma(lin.a, lin.b, lin.c, lin.xin, lin.xout, lin.gam, lin.size)} :
       lin' = [lin EXCEPT !.xout = r.xout, !.gam = r.gam, !.done = TRUE]
  /\ last' = "tdma"
  /\ UNCHANGED <<envVars, fieldVars, forceVars, ncalls, pres, pres4, divmax>>

SpecTdma ==
  /\ InitTdma
  /\ [][\/ cpres_tdma
        \/ lin = Null /\ cpres_init
        \/ lin = Null /\ cpres_exec]_vars

\* zero or not a number
Vanishes(x) == IsNaN(x) \/ x[1] = 0

\* the pivot of row k: b[0], then b[k] - a[k]*gam[k]
RECURSIVE Pivot(_, _, _, _)
Pivot(k, a, b, c) ==
  IF k = 0 THEN b[0]
  ELSE RSub(b[k], RMul(a[k], RDiv(c[k - 1], Pivot(k - 1, a, b, c))))

NoZeroPivot(a, b, c, size) == \A k \in 0 .. size - 1 : ~Vanishes(Pivot(k, a, b, c))

\* x satisfies the size equations of the tridiagonal system
SolvesTridiagonal(a, b, c, xin, x, size) ==
  \A k \in 0 .. size - 1 :
    RAdd(RAdd(IF k > 0 THEN RMul(a[k], x[k - 1]) ELSE RSub(xin[k], xin[k]),
              RMul(b[k], x[k])),
         IF k < size - 1 THEN RMul(c[k], x[k + 1]) ELSE RSub(xin[k], xin[k]))
      = xin[k]

\* the diagonal pres_2nd_solve builds for column col
BuiltDiagonal(col) ==
  pres_2nd_solve_fill(col, grid.dz,
                      [p |-> p, b |-> pres.b, xin |-> pres.xin,
                       xout |-> pres.xout, d |-> pres.d]).b

\* C19: tdma solves the tridiagonal system: for every size >= 1 and every a,
\* b, c, xin for which no pivot (b[0], then b[k] - a[k]*gam[k]) is zero, the
\* xout it returns satisfies every equation of the system in exact
\* arithmetic; and with the coefficients pres_2nd_solve builds on a grid of
\* positive spacings no pivot is zero for any wavenumber pair, (0,0)
\* included (and the xout of the column solved last satisfies its system).
C19_Tdma ==
  /\ (lin # Null /\ lin.done /\ NoZeroPivot(lin.a, lin.b, lin.c, lin.size))
       => SolvesTridiagonal(lin.a, lin.b, lin.c, lin.xin, lin.xout, lin.size)
  /\ (lin = Null /\ pres # Null)
       => \A col \in 0 .. grid.imax * grid.jmax - 1 :
            NoZeroPivot(pres.a, BuiltDiagonal(col), pres.c, grid.ktot)
  /\ (lin = Null /\ last = "pres_exec")
       => SolvesTridiagonal(pres.a, pres.b, pres.c, pres.xin, pres.xout, grid.ktot)

\* tdma has solved a system of three rows with a right-hand side that is not
\* zero, and the solver has run on a stretched grid of three levels with
\* two columns each way
C19_Witness ==
  \/ /\ lin # Null /\ lin.done /\ lin.size = MaxSize
     /\ NoZeroPivot(lin.a, lin.b, lin.c, lin.size)
     /\ \A k \in 0 .. lin.size - 1 : lin.xin[k] = R(1) /\ lin.xout[k] # R(0)
     /\ lin.b[0] = R(-2) /\ lin.a[1] = R(-2)
  \/ /\ lin = Null /\ last = "pres_exec"
     /\ grid.ktot = MaxSize /\ grid.itot = 2 /\ grid.jtot = 2
     /\ grid.dz[grid.kstart] # grid.dz[grid.kstart + 1]
     /\ \E n \in Cells : Interior(n) /\ p[n] # F(0)


---------------------------------------------------------------------------
\* the slices Pres_4::solve hands to hdma for row n in the exec that starts
\* in this state
Assembled(n) ==
  solve_fill(n, fft_forward(solve_work3d(
               Pres_4_input(p, u, v, w, ut, vt, wt, grid.dzi4, dt).p)), pres4.tmp)

\* the entry of band d (-3 .. 3, m1 .. m7) of row k of column i times the
\* unknown it multiplies; nothing for an entry outside the matrix
BandTerm(T, x, i, k, d) ==
  LET ik == i + k * grid.iblock
      m == IF d = -3 THEN T.m1 ELSE IF d = -2 THEN T.m2 ELSE IF d = -1 THEN T.m3
           ELSE IF d = 0 THEN T.m4 ELSE IF d = 1 THEN T.m5 ELSE IF d = 2 THEN T.m6
           ELSE T.m7
  IN  IF k + d < 0 \/ k + d > grid.kmax + 3 THEN F(0)
      ELSE RMul(m[ik], x[ik + d * grid.iblock])

\* x satisfies the kmax + 4 equations of every column of the slices T
SolvesHeptadiagonal(T, x) ==
  \A i \in 0 .. grid.iblock - 1 : \A k \in 0 .. grid.kmax + 3 :
    RAdd(RAdd(RAdd(BandTerm(T, x, i, k, -3), BandTerm(T, x, i, k, -2)),
              RAdd(BandTerm(T, x, i, k, -1), BandTerm(T, x, i, k, 0))),
         RAdd(RAdd(BandTerm(T, x, i, k, 1), BandTerm(T, x, i, k, 2)),
              BandTerm(T, x, i, k, 3)))
      = T.p[i + k * grid.iblock]

\* no pivot of the factorisation is zero: m4 of row 0 as assembled, m4 of
\* the other rows as the factorisation leaves it
NoZeroPivot4(T) ==
  \A ik \in DOMAIN T.m4 :
    IF ik \div grid.iblock = 0 THEN ~Vanishes(T.m4[ik])
    ELSE ~Vanishes(hdma_lu(0, T).m4[ik])

\* C20: hdma solves the heptadiagonal system: for the band matrix of kmax + 4
\* rows that Pres_4::solve assembles and its right-hand side ptemp, the
\* vector hdma leaves in ptemp satisfies every one of the kmax + 4 equations
\* in exact arithmetic when no pivot m4 is zero; in particular x[0] = x[3],
\* x[1] = x[2] and the two top boundary rows hold.
C20_Hdma ==
  [][(ExecStep /\ grid.swspatialorder = "4") =>
       \A n \in 0 .. grid.jblock - 1 :
         NoZeroPivot4(Assembled(n)) =>
           /\ SolvesHeptadiagonal(Assembled(n), hdma(Assembled(n)).p)
           /\ \A i \in 0 .. grid.iblock - 1 :
                /\ hdma(Assembled(n)).p[i] = hdma(Assembled(n)).p[i + 3 * grid.iblock]
                /\ hdma(Assembled(n)).p[i + grid.iblock]
                     = hdma(Assembled(n)).p[i + 2 * grid.iblock]
           /\ TopRows4(n, hdma(Assembled(n)).p)]_vars

\* an exec has solved, with no pivot zero, a right-hand side that is not
\* zero on the grid of non-uniform levels: the slices hold the solution and
\* the factors of the row solved last
C20_Witness ==
  /\ last = "pres4_exec" /\ grid.swspatialorder = "4"
  /\ grid.dz[grid.kstart] # grid.dz[grid.kstart + 1]
  /\ \A ik \in DOMAIN pres4.tmp.p : ~IsNaN(pres4.tmp.p[ik]) /\ ~Vanishes(pres4.tmp.m4[ik])
  /\ \E ik \in DOMAIN pres4.tmp.p : pres4.tmp.p[ik] # F(0)
  /\ \E n \in Cells : Interior(n) /\ p[n] # p[n + grid.ijcells]


---------------------------------------------------------------------------
\* SpecLin: the column solves on their own.  Three right-hand sides RA, RB
\* and alpha*RA + beta*RB are solved one after the other on the same object,
\* so that each solve finds in the shared arrays what the one before left;
\* RA is an impulse in any one cell, RB one of two patterns.

\* where the solve reads its right-hand side in p: the interior cells
\* (second order), the compact layout left by input (fourth order)
RhsCells ==
  IF grid.swspatialorder = "2" THEN InteriorSeq
  ELSE [m \in 1 .. grid.imax * grid.jmax * grid.kmax |-> m - 1]

\* p with val[m] in the m-th cell of the right-hand side and zero elsewhere
RhsField(val) ==
  [n \in Cells |->
     IF \E m \in DOMAIN RhsCells : RhsCells[m] = n
     THEN val[CHOOSE m \in DOMAIN RhsCells : RhsCells[m] = n]
     ELSE F(0)]

Scalars == {<<F(1), F(1)>>, <<F(2), F(-3)>>, <<F(0), F(1)>>}

InitLin ==
  /\ ForceOff
  /\ grid \in PresGrids \cup Pres4Grids
  /\ pres = Null /\ pres4 = Null /\ divmax = Null
  /\ ncalls = 0 /\ last = "start"
  /\ time = F(0) /\ dt = F(1)
  /\ st = [name \in FieldsSp |-> [n \in Cells |-> F(0)]]
  /\ datamean = [name \in FieldsSp |-> [k \in 0 .. grid.kcells - 1 |-> F(0)]]
  /\ p = [n \in Cells |-> F(0)]
  /\ u = p /\ v = p /\ w = p /\ ut = p /\ vt = p /\ wt = p
  /\ \E at \in DOMAIN RhsCells, pattern \in {1, 2}, s \in Scalars :
       LET ra == RhsField([m \in DOMAIN RhsCells |-> IF m = at THEN F(1) ELSE F(0)])
           rb == RhsField([m \in DOMAIN RhsCells |->
                             IF pattern = 1 THEN F(1) ELSE F(m * m - 4)])
       IN  lin = [alpha |-> s[1], beta |-> s[2],
                  rhs |-> <<ra, rb,
                            [n \in Cells |-> RAdd(RMul(s[1], ra[n]), RMul(s[2], rb[n]))]>>,
                  sol |-> <<>>]

\* a call of cpres::pres_2nd_solve on the next right-hand side
cpres_pres_2nd_solve ==
  /\ pres # Null /\ Len(lin.sol) < Len(lin.rhs)
  /\ \E sol \in {pres_2nd_solve(lin.rhs[Len(lin.sol) + 1], grid.dz, pres)} :
       /\ lin' = [lin EXCEPT !.sol = Append(@, sol.p)]
       /\ pres' = [pres EXCEPT !.b = sol.b, !.xin = sol.xin, !.xout = sol.xout,
                               !.d = sol.d]
  /\ last' = "pres_2nd_solve"
  /\ UNCHANGED <<envVars, fieldVars, forceVars, ncalls, pres4, divmax>>

\* a call of Pres_4::solve on the next right-hand side
Pres_4_solve_call ==
  /\ pres4 # Null /\ pres4.pc = "set" /\ Len(lin.sol) < Len(lin.rhs)
  /\ \E sol \in {Pres_4_solve(lin.rhs[Len(lin.sol) + 1], pres4.tmp)} :
       /\ lin' = [lin EXCEPT !.sol = Append(@, sol.p)]
       /\ pres4' = [pres4 EXCEPT !.tmp = sol.tmp, !.work3d = sol.work3d]
  /\ last' = "solve"
  /\ UNCHANGED <<envVars, fieldVars, forceVars, ncalls, pres, divmax>>

SpecLin ==
  /\ InitLin
  /\ [][\/ cpres_init \/ cpres_pres_2nd_solve
        \/ Pres_4_init \/ Pres_4_set_values \/ Pres_4_solve_call]_vars

\* the pressure the solve returns for rhs on an object whose shared arrays
\* are as allocated
SolvedFresh(rhs) ==
  IF grid.swspatialorder = "2"
  THEN pres_2nd_solve(rhs, grid.dz, pres_2nd_init(F(0))).p
  ELSE Pres_4_solve(rhs, Pres_4_init_arrays(F(0)).tmp).p

\* C10: for fixed coefficients, scalars alpha, beta and right-hand sides RA,
\* RB, the pressure the solve returns for alpha*RA + beta*RB is alpha*p(RA) +
\* beta*p(RB) in exact arithmetic, for the tridiagonal and the heptadiagonal
\* column solve; and no result depends on what an earlier solve (or the
\* allocation) left in the shared scratch arrays.
C10_Linearity ==
  /\ Len(lin.sol) = 3
       => \A n \in Cells :
            lin.sol[3][n] = RAdd(RMul(lin.alpha, lin.sol[1][n]),
                                 RMul(lin.beta, lin.sol[2][n]))
  /\ \A m \in DOMAIN lin.sol : lin.sol[m] = SolvedFresh(lin.rhs[m])

\* the three solves have run with alpha = 2 and beta = -3, none of the three
\* pressures is zero, and the third solve found in the scratch arrays what
\* the second had left, which is not what a fresh object holds there
C10_Witness ==
  /\ Len(lin.sol) = 3
  /\ lin.alpha = F(2) /\ lin.beta = F(-3)
  /\ \A m \in 1 .. 3 : \E n \in Cells : Interior(n) /\ lin.sol[m][n] # F(0)
  /\ \/ pres # Null /\ pres.xout # pres_2nd_init(F(0)).xout
     \/ pres4 # Null /\ pres4.tmp.p # Pres_4_init_arrays(F(0)).tmp.p


---------------------------------------------------------------------------
\* SpecRanks: the wavenumber indices of Pres_4::solve on npx * npy ranks.
\* Every rank runs the loop of solve over its rows n on its own; lin holds
\* the decomposition, the row each rank has come to, and for every column
\* solved so far the indices it used for bmati and bmatj and the top
\* boundary it took.

\* the slab thickness exec hands to solve
jslice == 1

\* the decompositions: itot, jtot, npx, npy with npy | itot and npx | jtot
Decompositions ==
  {d \in [itot : {1, 2, 4}, jtot : {1, 2, 4}, npx : {1, 2}, npy : {1, 2}] :
     d.itot % d.npy = 0 /\ d.jtot % d.npx = 0}

\* the wavenumber indices with the coordinates swapped
solve_iindex(mpicoordy, iblock, i) == mpicoordy * iblock + i
solve_jindex_unswapped(mpicoordx, mpicoordy, jblock, n, j) ==
  mpicoordy * jblock + n * jslice + j
solve_jindex(mpicoordx, mpicoordy, jblock, n, j) ==
  mpicoordx * jblock + n * jslice + j

InitRanks ==
  /\ ForceOff
  /\ grid = TdmaGrid(1, 1, <<F(1)>>)
  /\ pres = Null /\ pres4 = Null /\ divmax = Null
  /\ ncalls = 0 /\ last = "start"
  /\ time = F(0) /\ dt = F(1)
  /\ st = [name \in FieldsSp |-> [n \in Cells |-> F(0)]]
  /\ datamean = [name \in FieldsSp |-> [k \in 0 .. grid.kcells - 1 |-> F(0)]]
  /\ p = [n \in Cells |-> F(0)]
  /\ u = p /\ v = p /\ w = p /\ ut = p /\ vt = p /\ wt = p
  /\ \E d \in Decompositions :
       lin = [itot |-> d.itot, jtot |-> d.jtot, npx |-> d.npx, npy |-> d.npy,
              iblock |-> d.itot \div d.npy, jblock |-> d.jtot \div d.npx,
              row |-> [r \in (0 .. d.npx - 1) \X (0 .. d.npy - 1) |-> 0],
              cols |-> {}]

\* one pass of the loop over n of Pres_4::solve on the rank with the
\* coordinates r = <<mpicoordx, mpicoordy>>: the columns j < jslice,
\* i < iblock of row n
Pres_4_solve_row ==
  /\ \E r \in DOMAIN lin.row :
       /\ lin.row[r] < lin.jblock \div jslice
       /\ lin' = [lin EXCEPT
            !.row[r] = @ + 1,
            !.cols = @ \cup
              {[rank |-> r, n |-> lin.row[r], j |-> j, i |-> i,
                iindex |-> solve_iindex(r[2], lin.iblock, i),
                jindex |-> solve_jindex(r[1], r[2], lin.jblock, lin.row[r], j),
                pinned |-> /\ solve_iindex(r[2], lin.iblock, i) = 0
                           /\ solve_jindex(r[1], r[2], lin.jblock, lin.row[r], j) = 0] :
                 j \in 0 .. jslice - 1, i \in 0 .. lin.iblock - 1}]
  /\ last' = "solve_row"
  /\ UNCHANGED <<envVars, fieldVars, forceVars, ncalls, pres, pres4, divmax>>

SpecRanks == InitRanks /\ [][Pres_4_solve_row]_vars

\* every rank has run its loop to the end
AllRowsSolved == \A r \in DOMAIN lin.row : lin.row[r] = lin.jblock \div jslice

\* C21: with npx*npy ranks, iblock = itot/npy and jblock = jtot/npx, the
\* indices iindex and jindex of Pres_4::solve stay inside [0, itot) and
\* [0, jtot); no pair (iindex, jindex) is solved by two columns, and when all
\* ranks are through every pair has been solved by exactly one column of one
\* rank; only a column of the rank with mpicoordx = mpicoordy = 0 takes the
\* pinned top boundary, and over all ranks exactly one column does.
C21_Spectrum ==
  /\ \A c \in lin.cols :
       /\ c.iindex >= 0 /\ c.iindex < lin.itot
       /\ c.jindex >= 0 /\ c.jindex < lin.jtot
       /\ c.pinned => c.rank = <<0, 0>>
  /\ \A c, e \in lin.cols : (c.iindex = e.iindex /\ c.jindex = e.jindex) => c = e
  /\ AllRowsSolved =>
       /\ \A a \in 0 .. lin.itot - 1 : \A b \in 0 .. lin.jtot - 1 :
            Cardinality({c \in lin.cols : c.iindex = a /\ c.jindex = b}) = 1
       /\ Cardinality({c \in lin.cols : c.pinned}) = 1

\* four ranks, with blocks of 2 by 2 wavenumbers each, are all through
C21_Witness ==
  /\ AllRowsSolved
  /\ lin.npx = 2 /\ lin.npy = 2 /\ lin.itot = 4 /\ lin.jtot = 4
  /\ Cardinality(lin.cols) = 16
  /\ \E c \in lin.cols : c.rank = <<1, 0>> /\ c.jindex = 3 /\ c.iindex = 1


---------------------------------------------------------------------------
\* C22: in every call of tdma with size >= 1 each read of gam[k] is of an
\* index in [1, size-1] that the same call has written before: with gam
\* handed over as memory never set, xout comes out set in every entry
\* whenever no pivot is zero, and gam[1 .. size-1] are the quotients the call
\* wrote; gam[0] is left as handed over; and xout is what the call returns
\* for any other contents of gam.
C22_ScratchUnread ==
  (lin # Null /\ lin.done) =>
    /\ lin.gam[0] = lin.d[0]
    /\ lin.xout = tdma(lin.a, lin.b, lin.c, lin.xin, lin.xout,
                       [k \in 0 .. lin.size - 1 |-> R(0)], lin.size).xout
    /\ NoZeroPivot(lin.a, lin.b, lin.c, lin.size) =>
         /\ \A k \in 0 .. lin.size - 1 : ~IsNaN(lin.xout[k])
         /\ \A k \in 1 .. lin.size - 1 :
              lin.gam[k] = RDiv(lin.c[k - 1], Pivot(k - 1, lin.a, lin.b, lin.c))

\* tdma has solved a system of three rows with no pivot zero on a gam that
\* was never set: gam[0] is still unset, gam[1] and gam[2] are set
C22_Witness ==
  /\ lin # Null /\ lin.done /\ lin.size = MaxSize
  /\ NoZeroPivot(lin.a, lin.b, lin.c, lin.size)
  /\ IsNaN(lin.d[1]) /\ IsNaN(lin.gam[0])
  /\ ~IsNaN(lin.gam[1]) /\ ~IsNaN(lin.gam[2])
  /\ \E k \in 0 .. lin.size - 1 : lin.xout[k] # R(0)


---------------------------------------------------------------------------
\* SpecMetrics: set_values on columns of one to MaxLevels levels with the
\* fourth order metrics it reads (dzi4 on the levels, dzhi4 from one level
\* below to one above the top face) drawn freely: dzhi4 1 or 3 per level,
\* dzi4 1 everywhere or growing with the level

MaxLevels == 4

MetricGrids ==
  UNION {{PresGrid4(MakeGrid(1, 1, kmax, 2, "4", [k \in 1 .. kmax |-> F(1)],
                             [k \in 1 .. kmax + 1 |-> F(1)], F(0), F(0)),
                    F(1), F(1),
                    [k \in 1 .. kmax + 4 |-> IF grow THEN F(k + 1) ELSE F(1)],
                    [k \in 1 .. kmax + 4 |-> IF k = 1 THEN F(1) ELSE h[k]]) :
            grow \in BOOLEAN, h \in [2 .. kmax + 4 -> {F(1), F(3)}]} :
         kmax \in 1 .. MaxLevels}

InitMetrics ==
  /\ ForceOff
  /\ grid \in MetricGrids
  /\ pres = Null /\ pres4 = Null /\ divmax = Null /\ lin = Null
  /\ ncalls = 0 /\ last = "start"
  /\ time = F(0) /\ dt = F(1)
  /\ st = [name \in FieldsSp |-> [n \in Cells |-> F(0)]]
  /\ datamean = [name \in FieldsSp |-> [k \in 0 .. grid.kcells - 1 |-> F(0)]]
  /\ p = [n \in Cells |-> F(0)]
  /\ u = p /\ v = p /\ w = p /\ ut = p /\ vt = p /\ wt = p

SpecMetrics == InitMetrics /\ [][Pres_4_init \/ Pres_4_set_values]_vars

\* m1[k] + ... + m7[k]
RowSum7(k) ==
  RAdd(RAdd(RAdd(pres4.m1[k], pres4.m2[k]), RAdd(pres4.m3[k], pres4.m4[k])),
       RAdd(RAdd(pres4.m5[k], pres4.m6[k]), pres4.m7[k]))

\* the metrics set_values reads are the same on every level
UniformMetrics ==
  /\ \A k \in grid.kstart .. grid.kend - 1 : grid.dzi4[k] = grid.dzi4[grid.kstart]
  /\ \A k \in grid.kstart - 1 .. grid.kend + 1 : grid.dzhi4[k] = grid.dzhi4[grid.kstart]

\* the top row is the mirror image of the bottom row
TopMirrorsBottom ==
  LET t == grid.kmax - 1
  IN  /\ pres4.m1[t] = pres4.m7[0] /\ pres4.m2[t] = pres4.m6[0]
      /\ pres4.m3[t] = pres4.m5[0] /\ pres4.m4[t] = pres4.m4[0]
      /\ pres4.m5[t] = pres4.m3[0] /\ pres4.m6[t] = pres4.m2[0]
      /\ pres4.m7[t] = pres4.m1[0]

ValuesSet == pres4 # Null /\ pres4.pc = "set"

---------------------------------------------------------------------------
\* SpecAxes: one scalar with a time-dependent table whose time column is any
\* vector of one to MaxAxis entries over {0, 2, 4}, monotone or not, with or
\* without repeated entries; the clock before, at, between and after them

MaxAxis == 3

InitAxes ==
  /\ InitObject
  /\ grid = ColumnGrid
  /\ \E axis \in UNION {[1 .. n -> {R(0), R(2), R(4)}] : n \in 1 .. MaxAxis} :
       input = [items |-> Items(Absent, "1", Absent, "1", Absent, Absent),
                lists |-> [k \in {"lslist", "timedeplist"} |-> <<"s">>],
                profs |-> [k \in {"sls"} |-> ProfileOf(100)],
                timeprofs |-> [k \in {"sls"} |->
                                 [times |-> axis, rows |-> TableRows(0, Len(axis))]]]
  /\ time \in Clock
  /\ dt = R(1)
  /\ u = ZeroField /\ v = ZeroField /\ ut = ZeroField /\ vt = ZeroField
  /\ st = [name \in FieldsSp |-> ZeroField]
  /\ datamean = [name \in FieldsSp |-> ZeroProf]

SpecAxes == InitAxes /\ [][NextForce]_vars

\* updateTimeDep takes its interpolating branch in this state
Interpolating ==
  /\ updateTimeDep_index1(0) > 0
  /\ updateTimeDep_index1(0) < Len(timedeptime)

\* C24: for every non-empty time vector, monotone or not, with or without
\* repeated entries, and every time t, updateTimeDep passes indices with
\* 0 <= index0 <= index1 <= T-1; in the interpolating branch
\* times[index0] <= t < times[index1], so the interval it divides by is
\* positive; and the weights satisfy fac0 >= 0, fac1 >= 0, fac0 + fac1 = 1.
C24_Weights ==
  [][(UpdateStep /\ swtimedep = "1" /\ Len(timedeptime) >= 1) =>
       /\ 0 <= updateTimeDep_args.index0
       /\ updateTimeDep_args.index0 <= updateTimeDep_args.index1
       /\ updateTimeDep_args.index1 <= Len(timedeptime) - 1
       /\ Interpolating =>
            /\ RLe(timedeptime[updateTimeDep_args.index0 + 1], time)
            /\ RLt(time, timedeptime[updateTimeDep_args.index1 + 1])
            /\ RLt(R(0), RSub(timedeptime[updateTimeDep_args.index1 + 1],
                              timedeptime[updateTimeDep_args.index0 + 1]))
       /\ RLe(R(0), updateTimeDep_args.fac0)
       /\ RLe(R(0), updateTimeDep_args.fac1)
       /\ RAdd(updateTimeDep_args.fac0, updateTimeDep_args.fac1) = R(1)]_vars

\* updateTimeDep has interpolated, half and half, between the entries 2 and 4
\* of a time vector that is not monotone
C24_Witness ==
  /\ last = "updateTimeDep" /\ swtimedep = "1"
  /\ timedeptime = <<R(2), R(4), R(0)>> /\ time = R(3)
  /\ Interpolating
  /\ updateTimeDep_args.fac0 = Rat(1, 2)
  /\ \E k \in DOMAIN lsprofs["s"] : lsprofs["s"][k] = R(16)


---------------------------------------------------------------------------
(* The life of a Force object up to its destructor                         *)

\* SpecLife: every legal combination of the four switches, an lslist of one
\* name, of two names and of one name twice, with and without a time
\* dependent table; the destructor runs after the constructor, after init,
\* after create (thrown or not) or after the calls made on the created object
InitLife ==
  /\ InitObject
  /\ grid = ColumnGrid
  /\ \E lp \in {"0", "geo"}, ls \in {"0", "1"}, wl \in {"0", "1"}, td \in {"0", "1"},
        ll \in {<<"s">>, <<"s", "q">>, <<"s", "s">>},
        tl \in {<<>>, <<"s">>, <<"s", "q">>} :
       input = [items |-> Items(lp, ls, wl, td, Absent, R(1)),
                lists |-> [k \in {"lslist", "timedeplist"} |->
                             IF k = "lslist" THEN ll ELSE tl],
                profs |-> [k \in {"ug", "vg", "wls", "sls", "qls"} |-> ProfileOf(100)],
                timeprofs |-> [k \in {"sls"} |->
                                 [times |-> <<R(0), R(2)>>, rows |-> TableRows(0, 2)]]]
  /\ time = R(1)
  /\ dt = R(1)
  /\ u = ZeroField /\ v = ZeroField /\ ut = ZeroField /\ vt = ZeroField
  /\ st = [name \in FieldsSp |-> ZeroField]
  /\ datamean = [name \in FieldsSp |-> ZeroProf]

SpecLife == InitLife /\ [][NextForce \/ Force_dtor]_vars

\* the destructor has run
Destroyed == last = "~Force"

\* every block allocated has had exactly one delete[]
ReleasedOnce == \A b \in DOMAIN heap.freed : heap.freed[b] = 1

\* a name stands twice in lslist
Repeated == \E i, j \in DOMAIN lslist : i < j /\ lslist[i] = lslist[j]

\* C25: after the destructor, whatever the accepted configuration (an lslist
\* naming a scalar twice included) and whether it ran after the constructor,
\* after init or after create, every block allocated for ug, vg, wls,
\* lsprofs[name] and timedepdata[name] has been freed exactly once
C25_ReleasedOnce == Destroyed => ReleasedOnce

\* the part of C25 that holds: when no name stands twice in lslist, every
\* block has been freed exactly once after the destructor
C25_ReleasedOnceDistinct == (Destroyed /\ ~Repeated) => ReleasedOnce

\* a destructor run after create that freed six blocks once each
C25_DistinctWitness ==
  /\ Destroyed /\ fstate = "destroyed" /\ ncalls > 0
  /\ lslist = <<"s", "q">>
  /\ heap.freed = <<1, 1, 1, 1, 1, 1>>

\* the repeated name: the first block of lsprofs[s] never freed, the second
\* freed twice
C25_RepeatedWitness ==
  /\ Destroyed /\ lslist = <<"s", "s">> /\ swlspres = "0" /\ swwls = "0"
  /\ swtimedep = "0"
  /\ heap.freed = <<0, 2>>

=============================================================================
